---- MODULE Spec2Model ----
(***************************************************************************)
(* Grade ingestion and academic record engine of SupNum-Resultats-server:  *)
(* the row extractor (src/readFile.py), the merge engine, the promotion    *)
(* state machine and the visibility projector (note_service.py), over an   *)
(* abstract keyed document store (the notes collection).                   *)
(*                                                                         *)
(* Numbers with decimals (averages, notes) are integers in hundredths:     *)
(* 1000 is 10.00.  An academic year "2024-2025" is the pair <<2024,2025>>. *)
(* A niveau string "L1 – 2024-2025" is [level |-> "L1", year |-> <<..>>].  *)
(***************************************************************************)
EXTENDS Integers, Sequences, FiniteSets, TLC

VARIABLES
    store,   \* notes_collection: _id (matricule) -> document, or NoDoc
    scan,    \* natural order of the collection: the _ids in insertion order
    now,     \* datetime.utcnow(), a logical clock
    last,    \* the last service call: its input and what it returned or raised
    view,    \* the document returned by the last read, or NoView
    batch,   \* the last batch ingestion: its students and its result, or NoBatch
    calls    \* the service calls in progress: per caller, what the call has
             \* read and the write it is about to issue, or Idle

vars == <<store, scan, now, last, view, batch, calls>>

----------------------------------------------------------------------------
(* Bounds of the model                                                     *)

\* service calls that write (each reads the clock once) in one behaviour
MaxClock == 4
\* sheets ingested in one behaviour of the batch specification
MaxBatches == 2
\* service calls begun in one behaviour of the specification of interleavings
MaxRaceCalls == 3

Matricules == {100, 101, 102}
\* the requests served at the same time
Callers == {1, 2}
Semesters == {"S1", "S2", "S3", "S4", "S5"}
Years == {<<2024, 2025>>, <<2025, 2026>>}
ModuleCodes == {"UE1"}
MatiereCodes == {"M11"}

----------------------------------------------------------------------------
(* Cell values of the grid (pandas) and Python values                      *)

Num(v) == [v |-> v, t |-> "num"]      \* a number, v in hundredths
Str(v) == [v |-> v, t |-> "str"]      \* a text such as "11,01": comma decimal
Txt == [v |-> 0, t |-> "txt"]         \* a text that is no number ("ABS")
Blank == [v |-> 0, t |-> "blank"]     \* a text of spaces only
NaN == [v |-> 0, t |-> "nan"]         \* an empty cell
NoneV == [v |-> 0, t |-> "none"]      \* Python None

NoDoc == [absent |-> "doc"]
NoSem == [absent |-> "sem"]
NoNiveau == [absent |-> "niveau"]
NoInfo == [absent |-> "info"]
NoData == [absent |-> "data"]
\* no read since the last write
NoView == [kind |-> "unread", m |-> 0, doc |-> [absent |-> "doc"], computed |-> [absent |-> "computed"]]
NoComputed == [absent |-> "computed"]
NoBatch == [done |-> FALSE]
\* no call in progress
Idle == [op |-> "idle"]

\* clean_value: NaN, None and blank text become 0, anything else is kept
clean_value(value) ==
    IF value.t \in {"nan", "none", "blank"} THEN Num(0) ELSE value

\* parse_moyenne: None is 0.0; a text has its comma replaced and is read as a
\* float, 0.0 when that fails; a number is itself.  (NaN never reaches it: the
\* extractor stores clean_value of the cell.)
parse_moyenne(moy) ==
    CASE moy.t = "none" -> 0
      [] moy.t = "str" -> moy.v
      [] moy.t = "num" -> moy.v
      [] OTHER -> 0

\* int(float(str(x).replace(',', '.'))) of a credit cell, 0 when the cell is
\* empty or no number (the extractor's try/except)
credit_of_cell(c) ==
    IF c.t \in {"num", "str"} THEN c.v \div 100 ELSE 0

\* int(float(str(n).replace(',', '.'))) of a stored credit_total.  The extractor
\* stores a Python int, so the text is that of an integer and the conversion
\* never raises; a missing key reads as 0 (.get("credit_total", 0)), which the
\* extractor's blocks, always carrying the key, never exercise.
credit_int(n) == IF n \in Int THEN n ELSE 0

----------------------------------------------------------------------------
(* Niveau: levels, years and the niveau string                             *)

SemesterNumber(semester) ==
    CASE semester = "S1" -> 1
      [] semester = "S2" -> 2
      [] semester = "S3" -> 3
      [] semester = "S4" -> 4
      [] semester = "S5" -> 5
      [] semester = "S6" -> 6
      [] OTHER -> 0

get_niveau_from_semester(semester) ==
    LET semester_num == SemesterNumber(semester) IN
    IF semester_num <= 2 THEN "L1"
    ELSE IF semester_num <= 4 THEN "L2"
    ELSE "L3"

niveau_order(niveau) ==
    CASE niveau = "L1" -> 1
      [] niveau = "L2" -> 2
      [] niveau = "L3" -> 3
      [] OTHER -> 0

\* compare_niveaux with the two results swapped
compare_niveaux_swapped(niveau1, niveau2) ==
    LET order1 == niveau_order(niveau1)
        order2 == niveau_order(niveau2) IN
    IF order1 < order2 THEN 1
    ELSE IF order1 > order2 THEN -1
    ELSE 0

compare_niveaux(niveau1, niveau2) ==
    LET order1 == niveau_order(niveau1)
        order2 == niveau_order(niveau2) IN
    IF order1 < order2 THEN -1
    ELSE IF order1 > order2 THEN 1
    ELSE 0

RECURSIVE FirstFourDigits(_)
FirstFourDigits(n) == IF n < 10000 THEN n ELSE FirstFourDigits(n \div 10)

\* re.match(r'(L[123])\s*[–-]\s*(\d{4}-\d{4})'): a level, then a year whose
\* first number has exactly four digits and whose second has at least four,
\* of which the first four are kept
extract_niveau_from_string(niveau_str) ==
    IF niveau_str = NoNiveau THEN NoInfo
    ELSE IF /\ niveau_str.level \in {"L1", "L2", "L3"}
            /\ niveau_str.year[1] \in 1000..9999
            /\ niveau_str.year[2] >= 1000
         THEN [level |-> niveau_str.level,
               year |-> <<niveau_str.year[1], FirstFourDigits(niveau_str.year[2])>>]
         ELSE NoInfo

\* f"{niveau} – {year}"
niveau_string(niveau, year) == [level |-> niveau, year |-> year]

calculate_niveau(semester, year) ==
    niveau_string(get_niveau_from_semester(semester), year)

get_next_year(year) == <<year[1] + 1, year[2] + 1>>

----------------------------------------------------------------------------
(* Row extractor (src/readFile.py)                                         *)

\* notes of one subject block: four components then the Capit indicator
subject_notes(cells) ==
    [NCC |-> clean_value(cells.NCC),
     NSN |-> clean_value(cells.NSN),
     NSR |-> clean_value(cells.NSR),
     Moy |-> clean_value(cells.Moy),
     Capit |-> IF cells.Capit.t # "nan" THEN cells.Capit ELSE NoneV]

\* semester_block with the new semester public by default
semester_block_public(row, year) ==
    [year |-> year,
     isPublic |-> TRUE,
     modules |-> [mc \in ModuleCodes |->
                    [c \in MatiereCodes |-> subject_notes(row.notes[mc][c])]],
     moyenne_generale |-> clean_value(row.moy_general),
     credit_total |-> credit_of_cell(row.credit_total),
     decision |-> IF row.decision.t # "nan" THEN row.decision ELSE NoneV]

\* the semester block of one data row
semester_block(row, year) ==
    [year |-> year,
     isPublic |-> FALSE,
     modules |-> [mc \in ModuleCodes |->
                    [c \in MatiereCodes |-> subject_notes(row.notes[mc][c])]],
     moyenne_generale |-> clean_value(row.moy_general),
     credit_total |-> credit_of_cell(row.credit_total),
     decision |-> IF row.decision.t # "nan" THEN row.decision ELSE NoneV]

\* students[int(matricule)] of one data row whose matricule cell is not NaN.
\* The Python dict is flat (the semester code is a key beside the identity
\* fields); here the one semester key is the field semester and its value
\* the field block.
student_of_row(row, semester, year) ==
    [semester |-> semester,
     matricule |-> row.matricule.v,
     department |-> row.dept,
     prenom |-> row.prenom,
     nom |-> row.nom,
     block |-> semester_block(row, year)]

\* the students dict of a sheet's data rows, in the order of its keys: a row
\* with an empty matricule cell is skipped, a row whose matricule is already
\* a key replaces that key's value where it stands
RECURSIVE students_of_rows(_, _, _)
students_of_rows(rows, semester, year) ==
    IF rows = <<>> THEN <<>>
    ELSE
        LET before == students_of_rows(SubSeq(rows, 1, Len(rows) - 1), semester, year)
            row == rows[Len(rows)]
            student == student_of_row(row, semester, year)
            places == {i \in 1..Len(before) : before[i].matricule = student.matricule}
        IN IF row.matricule.t = "nan" THEN before
           ELSE IF places = {} THEN Append(before, student)
           ELSE [before EXCEPT ![CHOOSE i \in places : TRUE] = student]

\* a cell of the module-header row that reads "<code>: <name>"
ModuleHeader(code) == [v |-> code, t |-> "header"]

\* "S" + str(df.iloc[0, 1]): the text of the cell after an S, whatever the
\* cell holds; an empty cell gives "Snan"
semester_code(cell) ==
    IF cell.t \in {"num", "str"} /\ cell.v = 100 THEN "S1"
    ELSE IF cell.t \in {"num", "str"} /\ cell.v = 200 THEN "S2"
    ELSE IF cell.t \in {"num", "str"} /\ cell.v = 300 THEN "S3"
    ELSE IF cell.t = "nan" THEN "Snan"
    ELSE "SABS"

\* the scan of the module-header row: the cells that are a text with a colon
modules_of(header) ==
    LET IsModule(value) == value.t = "header" IN SelectSeq(header, IsModule)

\* int(matricule) raises ValueError: the cell is a text that is no integer
int_raises(cell) == cell.t \in {"blank", "txt"}

\* the whole of the extraction of one grid: the semester code, the modules,
\* and the students of the data rows.  A data row whose int(matricule) raises
\* stops the script before students.json is written: nothing is produced.
\* With no module found, the blocks of the students carry no module.
read_file(grid, year) ==
    LET semester == semester_code(grid.semester_cell)
        modules == modules_of(grid.header)
        students == students_of_rows(grid.rows, semester, year)
    IN IF \E i \in 1..Len(grid.rows) : int_raises(grid.rows[i].matricule)
       THEN [semester |-> semester, modules |-> modules, students |-> <<>>,
             raised |-> TRUE]
       ELSE [semester |-> semester, modules |-> modules,
             students |->
                IF modules # <<>> THEN students
                ELSE [i \in 1..Len(students) |->
                        [students[i] EXCEPT !.block.modules = <<>>]],
             raised |-> FALSE]

\* a cell of the subject-header row that reads "code:name"
MatiereHeader == [v |-> 0, t |-> "matiere"]

\* the five columns of the subject block whose header is at column col
matiere_block(col) ==
    [NCC |-> col, NSN |-> col + 1, NSR |-> col + 2, Moy |-> col + 3,
     Capit |-> col + 4, header |-> col]

\* the scan that resumes four columns after a subject header, on the column
\* of the indicator
RECURSIVE scan_matieres_resume_at_capit(_, _, _)
scan_matieres_resume_at_capit(subject_row, col, end) ==
    IF col > end THEN [raised |-> FALSE, visited |-> <<>>, matieres |-> <<>>]
    ELSE
        LET m_full == subject_row[col + 1] IN
        IF m_full.t # "matiere" THEN
            LET r == scan_matieres_resume_at_capit(subject_row, col + 1, end) IN
            [r EXCEPT !.visited = <<col>> \o @]
        ELSE IF col + 4 > Len(subject_row) - 1 THEN
            [raised |-> TRUE, visited |-> <<col>>, matieres |-> <<>>]
        ELSE
            LET r == scan_matieres_resume_at_capit(subject_row, col + 4, end) IN
            [r EXCEPT !.visited = <<col>> \o @,
                      !.matieres = <<matiere_block(col)>> \o @]

\* the loop "while col <= end" over the subject-header row (row 4 of the
\* grid, columns counted from 0) of one module span, from column col: the
\* columns the loop reads the header of, in order, the subject blocks it
\* builds, and whether a read beyond the last column of the grid raised
\* IndexError
RECURSIVE scan_matieres(_, _, _)
scan_matieres(subject_row, col, end) ==
    IF col > end THEN [raised |-> FALSE, visited |-> <<>>, matieres |-> <<>>]
    ELSE
        LET m_full == subject_row[col + 1] IN
        IF m_full.t # "matiere" THEN
            LET r == scan_matieres(subject_row, col + 1, end) IN
            [r EXCEPT !.visited = <<col>> \o @]
        ELSE IF col + 4 > Len(subject_row) - 1 THEN
            [raised |-> TRUE, visited |-> <<col>>, matieres |-> <<>>]
        ELSE
            LET r == scan_matieres(subject_row, col + 5, end) IN
            [r EXCEPT !.visited = <<col>> \o @,
                      !.matieres = <<matiere_block(col)>> \o @]

----------------------------------------------------------------------------
(* Promotion state machine                                                 *)

\* student_doc.get("Sx", {}) is falsy when the semester is absent
HasSem(student_doc, s) == student_doc.sems[s] # NoSem

\* sx_data.get("moyenne_generale", 0) and sx_data.get("credit_total", 0): 0
\* for a semester entry that lacks the field
get_moyenne_generale(sx_data) ==
    IF "moyenne_generale" \in DOMAIN sx_data THEN sx_data.moyenne_generale ELSE Num(0)
get_credit_total(sx_data) ==
    IF "credit_total" \in DOMAIN sx_data THEN sx_data.credit_total ELSE 0

\* check_promotion_to_l2 with a strict comparison of the average
check_promotion_to_l2_strict(student_doc) ==
    IF ~HasSem(student_doc, "S1") \/ ~HasSem(student_doc, "S2") THEN FALSE
    ELSE
        LET s1_data == student_doc.sems["S1"]
            s2_data == student_doc.sems["S2"]
        IN  /\ parse_moyenne(get_moyenne_generale(s1_data))
                + parse_moyenne(get_moyenne_generale(s2_data)) > 2 * 1000
            /\ credit_int(get_credit_total(s1_data)) + credit_int(get_credit_total(s2_data)) >= 39

check_promotion_to_l2(student_doc) ==
    IF ~HasSem(student_doc, "S1") \/ ~HasSem(student_doc, "S2") THEN FALSE
    ELSE
        LET s1_data == student_doc.sems["S1"]
            s2_data == student_doc.sems["S2"]
            moy_s1 == parse_moyenne(get_moyenne_generale(s1_data))
            moy_s2 == parse_moyenne(get_moyenne_generale(s2_data))
            credit_s1 == credit_int(get_credit_total(s1_data))
            credit_s2 == credit_int(get_credit_total(s2_data))
        IN  \* (moy_s1 + moy_s2) / 2 >= 10, in hundredths
            /\ moy_s1 + moy_s2 >= 2 * 1000
            /\ credit_s1 + credit_s2 >= 39

\* check_promotion_to_l3 without the check of the L1 credits
check_promotion_to_l3_no_l1(student_doc) ==
    IF \/ ~HasSem(student_doc, "S1") \/ ~HasSem(student_doc, "S2")
       \/ ~HasSem(student_doc, "S3") \/ ~HasSem(student_doc, "S4") THEN FALSE
    ELSE
        LET s3_data == student_doc.sems["S3"]
            s4_data == student_doc.sems["S4"]
        IN  /\ parse_moyenne(get_moyenne_generale(s3_data))
                + parse_moyenne(get_moyenne_generale(s4_data)) >= 2 * 1000
            /\ credit_int(get_credit_total(s3_data)) + credit_int(get_credit_total(s4_data)) >= 60

check_promotion_to_l3(student_doc) ==
    IF \/ ~HasSem(student_doc, "S1") \/ ~HasSem(student_doc, "S2")
       \/ ~HasSem(student_doc, "S3") \/ ~HasSem(student_doc, "S4") THEN FALSE
    ELSE
        LET s1_data == student_doc.sems["S1"]
            s2_data == student_doc.sems["S2"]
            s3_data == student_doc.sems["S3"]
            s4_data == student_doc.sems["S4"]
            moy_s3 == parse_moyenne(get_moyenne_generale(s3_data))
            moy_s4 == parse_moyenne(get_moyenne_generale(s4_data))
            credits_l1 == credit_int(get_credit_total(s1_data))
                            + credit_int(get_credit_total(s2_data))
            credits_l2 == credit_int(get_credit_total(s3_data))
                            + credit_int(get_credit_total(s4_data))
        IN  /\ moy_s3 + moy_s4 >= 2 * 1000
            /\ credits_l1 >= 39
            /\ credits_l2 >= 60

\* should_update_niveau that evaluates the promotion to L2 when either of S1
\* and S2 is ingested (and that to L3 when either of S3 and S4 is)
should_update_niveau_either_order(current_niveau, new_semester, new_year, student_doc) ==
    IF new_semester \in {"S1", "S2"} THEN
        IF check_promotion_to_l2(student_doc)
        THEN [niveau |-> niveau_string("L2", get_next_year(new_year)), update |-> TRUE]
        ELSE [niveau |-> niveau_string("L1", new_year), update |-> TRUE]
    ELSE IF new_semester \in {"S3", "S4"} THEN
        IF check_promotion_to_l3(student_doc)
        THEN [niveau |-> niveau_string("L3", get_next_year(new_year)), update |-> TRUE]
        ELSE [niveau |-> niveau_string("L2", new_year), update |-> TRUE]
    ELSE [niveau |-> calculate_niveau(new_semester, new_year), update |-> TRUE]

\* returns (should_update, new_niveau)
should_update_niveau(current_niveau, new_semester, new_year, student_doc) ==
    IF new_semester = "S2" THEN
        IF check_promotion_to_l2(student_doc)
        THEN [niveau |-> niveau_string("L2", get_next_year(new_year)), update |-> TRUE]
        ELSE [niveau |-> niveau_string("L1", new_year), update |-> TRUE]
    ELSE IF new_semester = "S4" THEN
        IF check_promotion_to_l3(student_doc)
        THEN [niveau |-> niveau_string("L3", get_next_year(new_year)), update |-> TRUE]
        ELSE [niveau |-> niveau_string("L2", new_year), update |-> TRUE]
    ELSE
        LET new_niveau_level == get_niveau_from_semester(new_semester)
            new_niveau_str == calculate_niveau(new_semester, new_year)
            current_info == extract_niveau_from_string(current_niveau)
        IN
        IF current_niveau = NoNiveau THEN [niveau |-> new_niveau_str, update |-> TRUE]
        ELSE IF current_info = NoInfo THEN [niveau |-> new_niveau_str, update |-> TRUE]
        ELSE
            LET comparison == compare_niveaux(current_info.level, new_niveau_level) IN
            IF comparison < 0 THEN [niveau |-> new_niveau_str, update |-> TRUE]
            ELSE IF comparison > 0 THEN [niveau |-> current_niveau, update |-> FALSE]
            ELSE IF current_info.year = new_year
                 THEN [niveau |-> current_niveau, update |-> FALSE]
                 ELSE [niveau |-> new_niveau_str, update |-> TRUE]

----------------------------------------------------------------------------
(* Record merge engine: NoteService.save_student_notes                     *)

\* update_doc whose promotion decision is taken on the stored record, the
\* incoming semester not yet in it
update_doc_stored_view(existing, student_data, t) ==
    LET new_semester == student_data.semester
        new_year == student_data.block.year
        r == should_update_niveau(existing.niveau, new_semester, new_year, existing)
    IN [semester |-> new_semester,
        niveau |-> r.niveau,
        department |-> student_data.department,
        prenom |-> student_data.prenom,
        nom |-> student_data.nom,
        block |-> student_data.block,
        updated_at |-> t,
        set_niveau |-> r.update]

\* the update path's "$set" document, niveau included when should_update
update_doc(existing, student_data, t) ==
    LET new_semester == student_data.semester
        new_year == student_data.block.year
        \* temp_doc = existing.copy(); temp_doc.update(update_doc["$set"])
        temp_doc == [existing EXCEPT !.updated_at = t,
                                     !.department = student_data.department,
                                     !.prenom = student_data.prenom,
                                     !.nom = student_data.nom,
                                     !.sems[new_semester] = student_data.block]
        r == should_update_niveau(existing.niveau, new_semester, new_year, temp_doc)
    IN [semester |-> new_semester,
        niveau |-> r.niveau,
        department |-> student_data.department,
        prenom |-> student_data.prenom,
        nom |-> student_data.nom,
        block |-> student_data.block,
        updated_at |-> t,
        set_niveau |-> r.update]

\* apply_set as a replacement of the document: only the incoming semester is kept
apply_set_replace(doc, upd) ==
    [doc EXCEPT !.updated_at = upd.updated_at,
                !.department = upd.department,
                !.prenom = upd.prenom,
                !.nom = upd.nom,
                !.sems = [s \in Semesters |-> IF s = upd.semester THEN upd.block ELSE NoSem],
                !.niveau = IF upd.set_niveau THEN upd.niveau ELSE @]

\* apply_set that also stamps created_at, as a replacement of the document would
apply_set_restamp(doc, upd) ==
    [doc EXCEPT !.updated_at = upd.updated_at,
                !.created_at = upd.updated_at,
                !.department = upd.department,
                !.prenom = upd.prenom,
                !.nom = upd.nom,
                !.sems[upd.semester] = upd.block,
                !.niveau = IF upd.set_niveau THEN upd.niveau ELSE @]

\* apply_set that keeps the stored isPublic of a semester ingested again
apply_set_keep_flag(doc, upd) ==
    [doc EXCEPT !.updated_at = upd.updated_at,
                !.department = upd.department,
                !.prenom = upd.prenom,
                !.nom = upd.nom,
                !.sems[upd.semester] =
                    IF doc.sems[upd.semester] = NoSem THEN upd.block
                    ELSE [upd.block EXCEPT !.isPublic = doc.sems[upd.semester].isPublic],
                !.niveau = IF upd.set_niveau THEN upd.niveau ELSE @]

\* update_one({"_id": matricule}, {"$set": ...}) on the matched document: the
\* store applies every field of one update together
apply_set(doc, upd) ==
    [doc EXCEPT !.updated_at = upd.updated_at,
                !.department = upd.department,
                !.prenom = upd.prenom,
                !.nom = upd.nom,
                !.sems[upd.semester] = upd.block,
                !.niveau = IF upd.set_niveau THEN upd.niveau ELSE @]

\* new_document that normalises the Capit indicator as it does the notes
new_document_cleaned(student_data, t) ==
    LET block == [student_data.block EXCEPT !.modules =
                    [mc \in ModuleCodes |-> [c \in MatiereCodes |->
                        [@[mc][c] EXCEPT !.Capit = clean_value(@)]]]]
        document == [niveau |-> NoNiveau,
                     matricule |-> student_data.matricule,
                     department |-> student_data.department,
                     prenom |-> student_data.prenom,
                     nom |-> student_data.nom,
                     sems |-> [s \in Semesters |->
                                 IF s = student_data.semester THEN block ELSE NoSem],
                     updated_at |-> t,
                     created_at |-> t,
                     isPublicGlobale |-> FALSE]
        r == should_update_niveau(NoNiveau, student_data.semester,
                                  student_data.block.year, document)
    IN [document EXCEPT !.niveau = r.niveau]

\* the create path's document
new_document(student_data, t) ==
    LET document == [niveau |-> NoNiveau,
                     matricule |-> student_data.matricule,
                     department |-> student_data.department,
                     prenom |-> student_data.prenom,
                     nom |-> student_data.nom,
                     sems |-> [s \in Semesters |->
                                 IF s = student_data.semester
                                 THEN student_data.block ELSE NoSem],
                     updated_at |-> t,
                     created_at |-> t,
                     isPublicGlobale |-> FALSE]
        r == should_update_niveau(NoNiveau, student_data.semester,
                                  student_data.block.year, document)
    IN [document EXCEPT !.niveau = r.niveau]

\* save_student_notes whose update path writes the semester and the niveau in
\* two updates, the second of which is the one that may fail
save_student_notes_two_writes(st, student_data, t, db_ok) ==
    LET matricule == student_data.matricule
        existing == st[matricule]
        upd == update_doc(existing, student_data, t)
    IN
    IF existing # NoDoc THEN
        [store |-> [st EXCEPT ![matricule] =
                      IF db_ok THEN apply_set(existing, upd)
                      ELSE apply_set(existing, [upd EXCEPT !.set_niveau = FALSE])],
         operation |-> IF db_ok THEN "updated" ELSE "error",
         writes |-> 2,
         inserted |-> FALSE]
    ELSE
        [store |-> IF db_ok
                   THEN [st EXCEPT ![matricule] = new_document(student_data, t)]
                   ELSE st,
         operation |-> IF db_ok THEN "created" ELSE "error",
         writes |-> 1,
         inserted |-> db_ok]

\* save_student_notes against the collection st at time t; db_ok is whether
\* the store carries out the one write (update_one or insert_one) or raises.
\* Returns the collection afterwards and what the call returned or raised.
save_student_notes(st, student_data, t, db_ok) ==
    LET matricule == student_data.matricule
        existing == st[matricule]
    IN
    IF existing # NoDoc THEN
        [store |-> IF db_ok
                   THEN [st EXCEPT ![matricule] =
                            apply_set(existing, update_doc(existing, student_data, t))]
                   ELSE st,
         operation |-> IF db_ok THEN "updated" ELSE "error",
         writes |-> 1,
         inserted |-> FALSE]
    ELSE
        [store |-> IF db_ok
                   THEN [st EXCEPT ![matricule] = new_document(student_data, t)]
                   ELSE st,
         operation |-> IF db_ok THEN "created" ELSE "error",
         writes |-> 1,
         inserted |-> db_ok]

----------------------------------------------------------------------------
(* Batch ingestion: NoteService.save_multiple_students_notes               *)

\* the loop stopped by the first student whose save raises
RECURSIVE save_each_abort(_, _, _, _, _)
save_each_abort(acc, students, i, t, fails) ==
    IF i > Len(students) THEN acc
    ELSE
        LET student_data == students[i]
            r == save_student_notes(acc.store, student_data, t, i \notin fails)
        IN IF r.operation = "error"
           THEN [acc EXCEPT !.store = r.store,
                            !.errors = Append(@, [matricule |-> student_data.matricule,
                                                  error |-> "write failed"])]
           ELSE save_each_abort(
                    [store |-> r.store,
                     scan |-> IF r.inserted THEN Append(acc.scan, student_data.matricule)
                              ELSE acc.scan,
                     errors |-> acc.errors,
                     created |-> acc.created + (IF r.operation = "created" THEN 1 ELSE 0),
                     updated |-> acc.updated + (IF r.operation = "created" THEN 0 ELSE 1)],
                    students, i + 1, t, fails)

\* the loop over students_data.items() from the i-th student on: each save is
\* tried, and one that raises becomes a {matricule, error} entry.  fails is
\* the set of places whose write the store refuses.
RECURSIVE save_each(_, _, _, _, _)
save_each(acc, students, i, t, fails) ==
    IF i > Len(students) THEN acc
    ELSE
        LET student_data == students[i]
            r == save_student_notes(acc.store, student_data, t, i \notin fails)
        IN save_each(
            IF r.operation = "error"
            THEN [acc EXCEPT !.store = r.store,
                             !.errors = Append(@, [matricule |-> student_data.matricule,
                                                   error |-> "write failed"])]
            ELSE [store |-> r.store,
                  scan |-> IF r.inserted THEN Append(acc.scan, student_data.matricule)
                           ELSE acc.scan,
                  errors |-> acc.errors,
                  created |-> acc.created + (IF r.operation = "created" THEN 1 ELSE 0),
                  updated |-> acc.updated + (IF r.operation = "created" THEN 0 ELSE 1)],
            students, i + 1, t, fails)

\* returns the collection afterwards and the results dictionary
save_multiple_students_notes(st, sc, students, t, fails) ==
    LET done == save_each([store |-> st, scan |-> sc, errors |-> <<>>, created |-> 0,
                           updated |-> 0], students, 1, t, fails)
    IN [store |-> done.store,
        scan |-> done.scan,
        results |-> [errors |-> done.errors,
                     created |-> done.created,
                     updated |-> done.updated,
                     total |-> Len(students)]]

----------------------------------------------------------------------------
(* Ranking engine and computed fields                                      *)

\* str(document["_id"]) and the int(matricule) that reads it back
id_str(matricule) == [digits |-> matricule]
id_int(text) == text.digits

\* round(sum / count, 2) of values in hundredths: the quotient rounded to the
\* nearest hundredth.  Python rounds an exact half as the binary float of the
\* quotient falls; the sheets of this model give no exact half, and a half
\* is rounded upwards here.
round2(total, count) == (2 * total + count) \div (2 * count)

RECURSIVE SumSeq(_)
SumSeq(values) == IF values = <<>> THEN 0 ELSE Head(values) + SumSeq(Tail(values))

SemesterOrder == <<"S1", "S2", "S3", "S4", "S5">>

\* calculate_moyenne_generale_allsemestre that keeps the semesters of a zero
\* or negative moyenne_generale in the sum and in the divisor
calculate_moyenne_generale_allsemestre_all(student_doc) ==
    LET Valid(s) == student_doc.sems[s] # NoSem
        keys == SelectSeq(SemesterOrder, Valid)
        semesters == [i \in 1..Len(keys) |->
                        parse_moyenne(student_doc.sems[keys[i]].moyenne_generale)]
    IN IF semesters = <<>> THEN 0 ELSE round2(SumSeq(semesters), Len(semesters))

\* the semesters of a document (or of a projection of one) whose
\* moyenne_generale is strictly positive, averaged
calculate_moyenne_generale_allsemestre(student_doc) ==
    LET Valid(s) == /\ student_doc.sems[s] # NoSem
                    /\ parse_moyenne(student_doc.sems[s].moyenne_generale) > 0
        keys == SelectSeq(SemesterOrder, Valid)
        semesters == [i \in 1..Len(keys) |->
                        parse_moyenne(student_doc.sems[keys[i]].moyenne_generale)]
    IN IF semesters = <<>> THEN 0 ELSE round2(SumSeq(semesters), Len(semesters))

\* list(notes_collection.find()) with every _id turned into text
all_students_of(st, sc) ==
    [i \in 1..Len(sc) |-> [doc |-> st[sc[i]], id |-> id_str(sc[i])]]

\* insert_desc that puts x before the elements of the same average, so that
\* equal averages come out in the reverse of their input order
RECURSIVE insert_desc_ties_first(_, _)
insert_desc_ties_first(sorted, x) ==
    IF sorted = <<>> THEN <<x>>
    ELSE IF Head(sorted).moyenne_allsemestre > x.moyenne_allsemestre
         THEN <<Head(sorted)>> \o insert_desc_ties_first(Tail(sorted), x)
         ELSE <<x>> \o sorted

\* sorted(..., key=moyenne_allsemestre, reverse=True): stable, the records of
\* equal key keep their order
RECURSIVE insert_desc(_, _)
insert_desc(sorted, x) ==
    IF sorted = <<>> THEN <<x>>
    ELSE IF Head(sorted).moyenne_allsemestre >= x.moyenne_allsemestre
         THEN <<Head(sorted)>> \o insert_desc(Tail(sorted), x)
         ELSE <<x>> \o sorted

RECURSIVE sorted_desc(_)
sorted_desc(list) ==
    IF list = <<>> THEN <<>>
    ELSE insert_desc(sorted_desc(SubSeq(list, 1, Len(list) - 1)), list[Len(list)])

\* enumerate(list, start=1): the rank written for a matricule is that of its
\* last place in the list
rank_in(list, matricule) ==
    LET places == {i \in 1..Len(list) : list[i].matricule = matricule}
    IN CHOOSE i \in places : \A j \in places : j <= i

\* students_with_stats that files a record of unparseable niveau under L3
students_with_stats_default_l3(all_students) ==
    [i \in 1..Len(all_students) |->
        LET student == all_students[i].doc
            niveau_info == extract_niveau_from_string(student.niveau)
        IN [matricule |-> id_int(all_students[i].id),
            department |-> student.department,
            moyenne_allsemestre |-> calculate_moyenne_generale_allsemestre(student),
            niveau_level |-> IF niveau_info # NoInfo THEN niveau_info.level ELSE "L3"]]

students_with_stats(all_students) ==
    [i \in 1..Len(all_students) |->
        LET student == all_students[i].doc
            niveau_info == extract_niveau_from_string(student.niveau)
        IN [matricule |-> id_int(all_students[i].id),
            department |-> student.department,
            moyenne_allsemestre |-> calculate_moyenne_generale_allsemestre(student),
            niveau_level |-> IF niveau_info # NoInfo THEN niveau_info.level ELSE "L1"]]

\* calculate_all_semester_ranks that numbers each level from 1, without
\* concatenating the levels
calculate_all_semester_ranks_per_level(all_students) ==
    LET stats == students_with_stats(all_students)
        by_niveau(level) ==
            LET InLevel(x) == x.niveau_level = level IN SelectSeq(stats, InLevel)
        dept_list(level, dept) ==
            LET InDept(x) == x.department = dept IN SelectSeq(by_niveau(level), InDept)
        ids == {stats[i].matricule : i \in 1..Len(stats)}
        info(matricule) == stats[CHOOSE i \in 1..Len(stats) : stats[i].matricule = matricule]
    IN [matricule \in ids |->
          [rang_generall_allsemestre |->
              rank_in(sorted_desc(by_niveau(info(matricule).niveau_level)), matricule),
           rang_allsemestre_dep |->
              rank_in(sorted_desc(dept_list(info(matricule).niveau_level,
                                            info(matricule).department)),
                      matricule)]]

\* calculate_all_semester_ranks whose department groups span the levels
calculate_all_semester_ranks_dept_only(all_students) ==
    LET stats == students_with_stats(all_students)
        by_niveau(level) ==
            LET InLevel(x) == x.niveau_level = level IN SelectSeq(stats, InLevel)
        all_students_sorted ==
            sorted_desc(by_niveau("L3")) \o sorted_desc(by_niveau("L2"))
                \o sorted_desc(by_niveau("L1"))
        dept_list(dept) ==
            LET InDept(x) == x.department = dept IN SelectSeq(stats, InDept)
        ids == {stats[i].matricule : i \in 1..Len(stats)}
        info(matricule) == stats[CHOOSE i \in 1..Len(stats) : stats[i].matricule = matricule]
    IN [matricule \in ids |->
          [rang_generall_allsemestre |-> rank_in(all_students_sorted, matricule),
           rang_allsemestre_dep |->
              rank_in(sorted_desc(dept_list(info(matricule).department)), matricule)]]

\* matricule -> its two ranks, for the matricules of all_students
calculate_all_semester_ranks(all_students) ==
    LET stats == students_with_stats(all_students)
        by_niveau(level) ==
            LET InLevel(x) == x.niveau_level = level IN SelectSeq(stats, InLevel)
        all_students_sorted ==
            sorted_desc(by_niveau("L3")) \o sorted_desc(by_niveau("L2"))
                \o sorted_desc(by_niveau("L1"))
        dept_list(level, dept) ==
            LET InDept(x) == x.department = dept IN SelectSeq(by_niveau(level), InDept)
        ids == {stats[i].matricule : i \in 1..Len(stats)}
        info(matricule) == stats[CHOOSE i \in 1..Len(stats) : stats[i].matricule = matricule]
    IN [matricule \in ids |->
          [rang_generall_allsemestre |-> rank_in(all_students_sorted, matricule),
           rang_allsemestre_dep |->
              rank_in(sorted_desc(dept_list(info(matricule).niveau_level,
                                            info(matricule).department)),
                      matricule)]]

\* the three computed fields of student_doc, whose _id is matricule
add_computed_fields(student_doc, matricule, all_students) ==
    LET moyenne_allsemestre == calculate_moyenne_generale_allsemestre(student_doc)
        ranks == IF all_students # <<>> THEN calculate_all_semester_ranks(all_students)
                 ELSE <<>>
        ranked == all_students # <<>> /\ id_int(id_str(matricule)) \in DOMAIN ranks
    IN [rang_generall_allsemestre |->
            IF ranked THEN ranks[matricule].rang_generall_allsemestre ELSE 0,
        rang_allsemestre_dep |->
            IF ranked THEN ranks[matricule].rang_allsemestre_dep ELSE 0,
        moyenne_generale_allsemestre |-> moyenne_allsemestre]

----------------------------------------------------------------------------
(* Reads: the full record and the visibility projector                     *)

\* get_student_notes: the document with its computed fields, None if absent
get_student_notes(st, sc, matricule) ==
    LET document == st[matricule] IN
    IF document = NoDoc
    THEN [kind |-> "none", m |-> matricule, doc |-> NoDoc, computed |-> NoComputed]
    ELSE [kind |-> "full", m |-> matricule, doc |-> document,
          computed |-> add_computed_fields(document, matricule, all_students_of(st, sc))]

\* get_all_notes: every document of the collection, in its natural order,
\* each with its computed fields
get_all_notes(st, sc) ==
    LET documents == all_students_of(st, sc) IN
    [kind |-> "all", m |-> 0, doc |-> documents,
     computed |-> [i \in 1..Len(documents) |->
                     add_computed_fields(documents[i].doc, id_int(documents[i].id),
                                         documents)]]

\* get_student_public_notes that keeps every stored semester, public or not
get_student_public_notes_all(st, sc, matricule) ==
    LET document == st[matricule] IN
    IF document = NoDoc
    THEN [kind |-> "none", m |-> matricule, doc |-> NoDoc, computed |-> NoComputed]
    ELSE
        LET filtered_doc ==
                [niveau |-> document.niveau,
                 matricule |-> document.matricule,
                 department |-> document.department,
                 prenom |-> document.prenom,
                 nom |-> document.nom,
                 sems |-> document.sems]
        IN [kind |-> "public", m |-> matricule, doc |-> filtered_doc,
            computed |-> IF document.isPublicGlobale
                         THEN add_computed_fields(filtered_doc, matricule,
                                                  all_students_of(st, sc))
                         ELSE NoComputed]

\* get_student_public_notes that zeroes the computed fields of a record whose
\* isPublicGlobale is false instead of leaving them out
get_student_public_notes_zeroed(st, sc, matricule) ==
    LET document == st[matricule] IN
    IF document = NoDoc
    THEN [kind |-> "none", m |-> matricule, doc |-> NoDoc, computed |-> NoComputed]
    ELSE
        LET filtered_doc ==
                [niveau |-> document.niveau,
                 matricule |-> document.matricule,
                 department |-> document.department,
                 prenom |-> document.prenom,
                 nom |-> document.nom,
                 sems |-> [s \in Semesters |->
                             IF document.sems[s] # NoSem /\ document.sems[s].isPublic
                             THEN document.sems[s] ELSE NoSem]]
        IN [kind |-> "public", m |-> matricule, doc |-> filtered_doc,
            computed |-> IF document.isPublicGlobale
                         THEN add_computed_fields(filtered_doc, matricule,
                                                  all_students_of(st, sc))
                         ELSE [rang_generall_allsemestre |-> 0,
                               rang_allsemestre_dep |-> 0,
                               moyenne_generale_allsemestre |-> 0]]

\* get_student_public_notes: identity fields and niveau, the semesters whose
\* isPublic is True, and the computed fields if isPublicGlobale
get_student_public_notes(st, sc, matricule) ==
    LET document == st[matricule] IN
    IF document = NoDoc
    THEN [kind |-> "none", m |-> matricule, doc |-> NoDoc, computed |-> NoComputed]
    ELSE
        LET filtered_doc ==
                [niveau |-> document.niveau,
                 matricule |-> document.matricule,
                 department |-> document.department,
                 prenom |-> document.prenom,
                 nom |-> document.nom,
                 sems |-> [s \in Semesters |->
                             IF document.sems[s] # NoSem /\ document.sems[s].isPublic
                             THEN document.sems[s] ELSE NoSem]]
        IN [kind |-> "public", m |-> matricule, doc |-> filtered_doc,
            computed |-> IF document.isPublicGlobale
                         THEN add_computed_fields(filtered_doc, matricule,
                                                  all_students_of(st, sc))
                         ELSE NoComputed]

----------------------------------------------------------------------------
(* Visibility flags                                                        *)

\* update_semester_ispublic without the check of the semester: the update of
\* "<semester>.isPublic" on a record that lacks the semester writes an entry
\* holding the flag alone
update_semester_ispublic_unchecked(st, matricule, semester, is_public, t) ==
    LET student_doc == st[matricule] IN
    IF student_doc = NoDoc THEN [store |-> st, writes |-> 0, outcome |-> "not_found"]
    ELSE [store |-> [st EXCEPT ![matricule].sems[semester] =
                                  IF @ = NoSem THEN [isPublic |-> is_public]
                                  ELSE [@ EXCEPT !.isPublic = is_public],
                               ![matricule].updated_at = t],
          writes |-> 1, outcome |-> "ok"]

\* update_semester_ispublic: ValueError when the record or the semester is
\* absent, else one update of "<semester>.isPublic" and updated_at
update_semester_ispublic(st, matricule, semester, is_public, t) ==
    LET student_doc == st[matricule] IN
    IF student_doc = NoDoc THEN [store |-> st, writes |-> 0, outcome |-> "not_found"]
    ELSE IF student_doc.sems[semester] = NoSem
         THEN [store |-> st, writes |-> 0, outcome |-> "not_found"]
    ELSE [store |-> [st EXCEPT ![matricule].sems[semester].isPublic = is_public,
                               ![matricule].updated_at = t],
          writes |-> 1, outcome |-> "ok"]

\* update_ispublic_globale: ValueError when the record is absent
update_ispublic_globale(st, matricule, is_public_globale, t) ==
    LET student_doc == st[matricule] IN
    IF student_doc = NoDoc THEN [store |-> st, writes |-> 0, outcome |-> "not_found"]
    ELSE [store |-> [st EXCEPT ![matricule].isPublicGlobale = is_public_globale,
                               ![matricule].updated_at = t],
          writes |-> 1, outcome |-> "ok"]

----------------------------------------------------------------------------
(* The calls as the store sees them: a read, then one write, other calls   *)
(* of the service (and other clients of the store) in between              *)

\* a semester entry that holds the flag alone: what a "$set" of
\* "<semester>.isPublic" creates when the record has no such semester
FlagOnly(is_public) == [isPublic |-> is_public]

\* the write of save_student_notes that puts back the record as it was read,
\* with the incoming semester, instead of setting the fields it names
save_student_notes_write_back(st, existing, student_data, t) ==
    LET matricule == student_data.matricule IN
    IF existing # NoDoc THEN
        [store |-> IF st[matricule] # NoDoc
                   THEN [st EXCEPT ![matricule] =
                            apply_set(existing, update_doc(existing, student_data, t))]
                   ELSE st,
         operation |-> "updated",
         inserted |-> FALSE,
         matched_count |-> IF st[matricule] # NoDoc THEN 1 ELSE 0]
    ELSE IF st[matricule] # NoDoc THEN
        [store |-> st, operation |-> "error", inserted |-> FALSE, matched_count |-> 0]
    ELSE
        [store |-> [st EXCEPT ![matricule] = new_document(student_data, t)],
         operation |-> "created", inserted |-> TRUE, matched_count |-> 0]

\* the write of save_student_notes, given the record existing that its
\* find_one returned, against the collection st as it is by then: the update
\* path's update_one(..., upsert=False) matches nothing when the record is
\* gone, and the call returns "updated" whatever matched_count is; the create
\* path's insert_one raises DuplicateKeyError when the record is there
save_student_notes_write(st, existing, student_data, t) ==
    LET matricule == student_data.matricule IN
    IF existing # NoDoc THEN
        [store |-> IF st[matricule] # NoDoc
                   THEN [st EXCEPT ![matricule] =
                            apply_set(@, update_doc(existing, student_data, t))]
                   ELSE st,
         operation |-> "updated",
         inserted |-> FALSE,
         matched_count |-> IF st[matricule] # NoDoc THEN 1 ELSE 0]
    ELSE IF st[matricule] # NoDoc THEN
        [store |-> st, operation |-> "error", inserted |-> FALSE, matched_count |-> 0]
    ELSE
        [store |-> [st EXCEPT ![matricule] = new_document(student_data, t)],
         operation |-> "created", inserted |-> TRUE, matched_count |-> 0]

\* the write of update_semester_ispublic, issued after its checks passed:
\* ValueError when no record matches, else "<semester>.isPublic" and
\* updated_at are set on the record as it is by then
update_semester_ispublic_write(st, matricule, semester, is_public, t) ==
    IF st[matricule] = NoDoc THEN [store |-> st, writes |-> 1, outcome |-> "failed"]
    ELSE [store |-> [st EXCEPT ![matricule].sems[semester] =
                                  IF @ = NoSem THEN FlagOnly(is_public)
                                  ELSE [@ EXCEPT !.isPublic = is_public],
                               ![matricule].updated_at = t],
          writes |-> 1, outcome |-> "ok"]

\* the records matched by the filter {"<semester>.year": year}
matched_by(st, semester, year) ==
    {m \in Matricules :
        /\ st[m] # NoDoc
        /\ st[m].sems[semester] # NoSem
        /\ "year" \in DOMAIN st[m].sems[semester]
        /\ st[m].sems[semester].year = year}

\* delete_notes_by_semester_and_year: one update_many that unsets the
\* semester of every record holding it for that year
delete_notes_by_semester_and_year(st, semester, year, t) ==
    LET matched == matched_by(st, semester, year) IN
    [store |-> [m \in Matricules |->
                  IF m \in matched
                  THEN [st[m] EXCEPT !.sems[semester] = NoSem, !.updated_at = t]
                  ELSE st[m]],
     matched_count |-> Cardinality(matched)]

----------------------------------------------------------------------------
(* Statistics: NoteService.get_filtered_notes and get_statistics           *)

\* a text of the sheet given by its characters (a decision)
Text(chars) == [v |-> chars, t |-> "text"]

LowerLetters == <<"a", "b", "c", "d", "e", "f", "g", "h", "i", "j", "k", "l", "m",
                  "n", "o", "p", "q", "r", "s", "t", "u", "v", "w", "x", "y", "z">>
UpperLetters == <<"A", "B", "C", "D", "E", "F", "G", "H", "I", "J", "K", "L", "M",
                  "N", "O", "P", "Q", "R", "S", "T", "U", "V", "W", "X", "Y", "Z">>

\* str.upper(), character by character
upper(chars) ==
    [i \in 1..Len(chars) |->
        IF \E k \in 1..Len(LowerLetters) : LowerLetters[k] = chars[i]
        THEN UpperLetters[CHOOSE k \in 1..Len(LowerLetters) : LowerLetters[k] = chars[i]]
        ELSE chars[i]]

\* keyword in text
contains(chars, keyword) ==
    \E i \in 0..(Len(chars) - Len(keyword)) :
        \A k \in 1..Len(keyword) : chars[i + k] = keyword[k]

ADMIS == <<"A", "D", "M", "I", "S">>
RATTRAPAGE == <<"R", "A", "T", "T", "R", "A", "P", "A", "G", "E">>

\* str(decision).upper() if decision else "": None is "", Txt is the text
\* "ABS", and the text of a number holds no letter
decision_upper(decision) ==
    IF decision.t = "text" THEN upper(decision.v)
    ELSE IF decision.t = "txt" THEN <<"A", "B", "S">>
    ELSE <<>>

\* the absent value of the optional arguments semester and department, and
\* of the optional argument year
NoneStr == "None"
NoneYear == <<>>

\* get_filtered_notes before its computed fields: the documents kept by the
\* filters, in the order of the collection
get_filtered_notes(st, sc, semester, department, year) ==
    LET documents == all_students_of(st, sc)
        Kept(x) ==
            LET doc == x.doc IN
            /\ department # NoneStr => doc.department = department
            /\ semester # NoneStr => doc.sems[semester] # NoSem
            /\ (semester # NoneStr /\ year # NoneYear) => doc.sems[semester].year = year
            /\ (semester = NoneStr /\ year # NoneYear) =>
                    \E s \in Semesters : doc.sems[s] # NoSem /\ doc.sems[s].year = year
    IN SelectSeq(documents, Kept)

\* float() of a moyenne_generale, 0.0 when it raises
statistics_moyenne(moyenne_generale) ==
    CASE moyenne_generale.t = "str" -> moyenne_generale.v
      [] moyenne_generale.t = "num" -> moyenne_generale.v
      [] OTHER -> 0

\* int(round(x)) of x >= 0 in hundredths: to the nearest integer, an exact
\* half to the even one
round_int(x) ==
    LET whole == x \div 100
        rest == x % 100
    IN IF rest < 50 THEN whole
       ELSE IF rest > 50 THEN whole + 1
       ELSE IF whole % 2 = 0 THEN whole ELSE whole + 1

\* max(0, min(20, moyenne_rounded))
moyenne_bucket(x) ==
    LET moyenne_rounded == round_int(x) IN
    IF moyenne_rounded > 20 THEN 20
    ELSE IF moyenne_rounded < 0 THEN 0
    ELSE moyenne_rounded

\* tallied that also counts a negative average, in the bucket 0
tallied_any(x) == TRUE

\* if moyenne_generale >= 0: the average is tallied in the distribution
tallied(x) == x >= 0

\* classify whose numeric rule passes on the average alone
classify_no_credit(decision, moyenne_generale, credit_total) ==
    IF contains(decision, ADMIS) \/ moyenne_generale >= 1000 THEN "passed"
    ELSE IF contains(decision, RATTRAPAGE)
            \/ (moyenne_generale < 1000 /\ credit_total < 30) THEN "rattrapage"
    ELSE "failed"

\* the if / elif / else that tells passed, rattrapage and failed apart
classify(decision, moyenne_generale, credit_total) ==
    IF contains(decision, ADMIS) \/ (moyenne_generale >= 1000 /\ credit_total >= 30)
    THEN "passed"
    ELSE IF contains(decision, RATTRAPAGE)
            \/ (moyenne_generale < 1000 /\ credit_total < 30)
    THEN "rattrapage"
    ELSE "failed"

\* round(part / whole * 100, 2), in hundredths of a percent
percentage_of(part, whole) == IF whole > 0 THEN round2(part * 10000, whole) ELSE 0

\* get_statistics.  first gives, for each _id, the semester key that comes
\* first in its document, which is the one used when no semester is asked
\* for.  The distribution is the list of the 21 entries of the averages 0 to
\* 20 (the entry of the average i at place i + 1), empty when no record is
\* selected.
get_statistics(st, sc, semester, department, year, first) ==
    LET notes == get_filtered_notes(st, sc, semester, department, year)
        semester_data(i) ==
            IF semester # NoneStr THEN notes[i].doc.sems[semester]
            ELSE notes[i].doc.sems[first[id_int(notes[i].id)]]
        \* the records not passed over by "if not semester_data: continue"
        read == {i \in 1..Len(notes) : semester_data(i) # NoSem}
        moyenne_generale(i) == statistics_moyenne(semester_data(i).moyenne_generale)
        class(i) == classify(decision_upper(semester_data(i).decision),
                             moyenne_generale(i), semester_data(i).credit_total)
        counted == {i \in read : tallied(moyenne_generale(i))}
        average_count == Cardinality(counted)
        total_students == Len(notes)
        passed == Cardinality({i \in read : class(i) = "passed"})
        failed == Cardinality({i \in read : class(i) = "failed"})
        rattrapage == Cardinality({i \in read : class(i) = "rattrapage"})
        Counted(i) == i \in counted
        places == SelectSeq([i \in 1..Len(notes) |-> i], Counted)
        total_average_sum == SumSeq([k \in 1..Len(places) |-> moyenne_generale(places[k])])
        count_of(b) == Cardinality({i \in counted : moyenne_bucket(moyenne_generale(i)) = b})
    IN IF notes = <<>>
       THEN [total_students |-> 0, passed |-> 0, failed |-> 0, rattrapage |-> 0,
             passed_percentage |-> 0, failed_percentage |-> 0,
             rattrapage_percentage |-> 0,
             average_distribution |-> <<>>, total_average |-> 0]
       ELSE [total_students |-> total_students,
             passed |-> passed, failed |-> failed, rattrapage |-> rattrapage,
             passed_percentage |-> percentage_of(passed, total_students),
             failed_percentage |-> percentage_of(failed, total_students),
             rattrapage_percentage |-> percentage_of(rattrapage, total_students),
             average_distribution |->
                [i \in 1..21 |->
                    [count |-> count_of(i - 1),
                     average |-> i - 1,
                     percentage |-> percentage_of(count_of(i - 1), average_count)]],
             total_average |-> IF average_count > 0
                               THEN round2(total_average_sum, average_count) ELSE 0]

----------------------------------------------------------------------------
(* State machine                                                           *)

Init ==
    /\ store = [m \in Matricules |-> NoDoc]
    /\ scan = <<>>
    /\ now = 0
    /\ last = [m |-> 0, op |-> "none", semester |-> "", writes |-> 0,
               outcome |-> "none", sd |-> NoData, again |-> FALSE]
    /\ view = NoView
    /\ batch = NoBatch
    /\ calls = [p \in Callers |-> Idle]

\* one call of save_student_notes
SaveStudentNotes(student_data, db_ok) ==
    /\ now < MaxClock
    /\ LET r == save_student_notes(store, student_data, now, db_ok) IN
        /\ store' = r.store
        /\ scan' = IF r.inserted THEN Append(scan, student_data.matricule) ELSE scan
        \* again: the call before this one was a successful save of the same payload
        /\ last' = [m |-> student_data.matricule, op |-> "save_student_notes",
                    semester |-> student_data.semester,
                    writes |-> r.writes, outcome |-> r.operation, sd |-> student_data,
                    again |-> /\ last.op = "save_student_notes"
                              /\ last.outcome \in {"created", "updated"}
                              /\ last.sd = student_data]
    /\ now' = now + 1
    /\ view' = NoView
    /\ batch' = NoBatch
    /\ UNCHANGED calls

\* one call of save_multiple_students_notes on the students of a sheet
SaveMultipleStudentsNotes(students, fails) ==
    /\ now < MaxClock
    /\ LET r == save_multiple_students_notes(store, scan, students, now, fails) IN
        /\ store' = r.store
        /\ scan' = r.scan
        /\ batch' = [done |-> TRUE, students |-> students, fails |-> fails,
                     results |-> r.results]
    /\ last' = [m |-> 0, op |-> "save_multiple_students_notes", semester |-> "",
                writes |-> Len(students), outcome |-> "returned", sd |-> NoData,
                again |-> FALSE]
    /\ now' = now + 1
    /\ view' = NoView
    /\ UNCHANGED calls

\* one call of update_semester_ispublic
UpdateSemesterIsPublic(matricule, semester, is_public) ==
    /\ now < MaxClock
    /\ LET r == update_semester_ispublic(store, matricule, semester, is_public, now) IN
        /\ store' = r.store
        /\ last' = [m |-> matricule, op |-> "update_semester_ispublic",
                    semester |-> semester, writes |-> r.writes, outcome |-> r.outcome,
                    sd |-> NoData, again |-> FALSE]
    /\ now' = now + 1
    /\ view' = NoView
    /\ batch' = NoBatch
    /\ UNCHANGED <<scan, calls>>

\* one call of update_ispublic_globale
UpdateIsPublicGlobale(matricule, is_public_globale) ==
    /\ now < MaxClock
    /\ LET r == update_ispublic_globale(store, matricule, is_public_globale, now) IN
        /\ store' = r.store
        /\ last' = [m |-> matricule, op |-> "update_ispublic_globale",
                    semester |-> "", writes |-> r.writes, outcome |-> r.outcome,
                    sd |-> NoData, again |-> FALSE]
    /\ now' = now + 1
    /\ view' = NoView
    /\ batch' = NoBatch
    /\ UNCHANGED <<scan, calls>>

\* one call of get_student_notes; view is what it returned
GetStudentNotes(matricule) ==
    /\ view' = get_student_notes(store, scan, matricule)
    /\ UNCHANGED <<store, scan, now, last, batch, calls>>

\* one call of get_student_public_notes; view is what it returned
GetStudentPublicNotes(matricule) ==
    /\ view' = get_student_public_notes(store, scan, matricule)
    /\ UNCHANGED <<store, scan, now, last, batch, calls>>

\* one call of get_all_notes; view is what it returned
GetAllNotes ==
    /\ view' = get_all_notes(store, scan)
    /\ UNCHANGED <<store, scan, now, last, batch, calls>>

\* one call of get_statistics; view is its arguments and what it returned.
\* The order of the keys of a document is not part of the model's documents:
\* first is any choice of a stored semester of each document.
GetStatistics(semester, department, year, first) ==
    /\ \A m \in Matricules :
          IF store[m] = NoDoc THEN first[m] = "S1" ELSE store[m].sems[first[m]] # NoSem
    /\ view' = [kind |-> "stats", m |-> 0,
                doc |-> [semester |-> semester, year |-> year,
                         department |-> department, first |-> first],
                computed |-> get_statistics(store, scan, semester, department, year, first)]
    /\ UNCHANGED <<store, scan, now, last, batch, calls>>

\* one run of the extractor on a grid; view is the grid and what it produced
ReadFile(grid, year) ==
    /\ view' = [kind |-> "extract", m |-> 0, doc |-> grid,
                computed |-> read_file(grid, year)]
    /\ UNCHANGED <<store, scan, now, last, batch, calls>>

\* the scan of the subjects of the module span of the grid at hand; view is
\* the span and what the scan did
ScanMatieres ==
    /\ view.kind = "grid"
    /\ view' = [view EXCEPT !.kind = "scan",
                            !.computed = scan_matieres(view.doc.subject_row,
                                                       view.doc.start, view.doc.end)]
    /\ UNCHANGED <<store, scan, now, last, batch, calls>>

\* the calls begun so far: those that returned or raised and those in progress
Begun == now + Cardinality({p \in Callers : calls[p] # Idle})

\* save_student_notes up to its find_one: the call holds what it read
SaveStudentNotesRead(p, student_data) ==
    /\ calls[p] = Idle
    /\ Begun < MaxRaceCalls
    /\ calls' = [calls EXCEPT ![p] =
                    [op |-> "save_student_notes", existing |-> store[student_data.matricule],
                     sd |-> student_data]]
    /\ UNCHANGED <<store, scan, now, last, view, batch>>

\* save_student_notes from its find_one on: the one write and the return
SaveStudentNotesWrite(p) ==
    /\ calls[p].op = "save_student_notes"
    /\ LET student_data == calls[p].sd
           r == save_student_notes_write(store, calls[p].existing, student_data, now)
       IN
        /\ store' = r.store
        /\ scan' = IF r.inserted THEN Append(scan, student_data.matricule) ELSE scan
        /\ last' = [m |-> student_data.matricule, op |-> "save_student_notes",
                    semester |-> student_data.semester,
                    writes |-> 1, outcome |-> r.operation, sd |-> student_data,
                    again |-> FALSE]
    /\ calls' = [calls EXCEPT ![p] = Idle]
    /\ now' = now + 1
    /\ view' = NoView
    /\ batch' = NoBatch

\* update_semester_ispublic up to its checks: it raises when the record or
\* the semester is absent, else it goes on to its write
UpdateSemesterIsPublicRead(p, matricule, semester, is_public) ==
    /\ calls[p] = Idle
    /\ Begun < MaxRaceCalls
    /\ IF store[matricule] = NoDoc \/ store[matricule].sems[semester] = NoSem
       THEN /\ last' = [m |-> matricule, op |-> "update_semester_ispublic",
                        semester |-> semester, writes |-> 0, outcome |-> "not_found",
                        sd |-> NoData, again |-> FALSE]
            /\ now' = now + 1
            /\ UNCHANGED calls
       ELSE /\ calls' = [calls EXCEPT ![p] =
                            [m |-> matricule, op |-> "update_semester_ispublic",
                             semester |-> semester, is_public |-> is_public]]
            /\ UNCHANGED <<now, last>>
    /\ UNCHANGED <<store, scan, view, batch>>

\* update_semester_ispublic from its update_one on
UpdateSemesterIsPublicWrite(p) ==
    /\ calls[p].op = "update_semester_ispublic"
    /\ LET r == update_semester_ispublic_write(store, calls[p].m, calls[p].semester,
                                               calls[p].is_public, now)
       IN
        /\ store' = r.store
        /\ last' = [m |-> calls[p].m, op |-> "update_semester_ispublic",
                    semester |-> calls[p].semester, writes |-> r.writes,
                    outcome |-> r.outcome, sd |-> NoData, again |-> FALSE]
    /\ calls' = [calls EXCEPT ![p] = Idle]
    /\ now' = now + 1
    /\ view' = NoView
    /\ batch' = NoBatch
    /\ UNCHANGED scan

\* one call of delete_notes_by_semester_and_year
DeleteNotesBySemesterAndYear(semester, year) ==
    /\ Begun < MaxRaceCalls
    /\ LET r == delete_notes_by_semester_and_year(store, semester, year, now) IN
        /\ store' = r.store
        /\ last' = [m |-> 0, op |-> "delete_notes_by_semester_and_year",
                    semester |-> semester, writes |-> r.matched_count, outcome |-> "deleted",
                    sd |-> NoData, again |-> FALSE]
    /\ now' = now + 1
    /\ view' = NoView
    /\ batch' = NoBatch
    /\ UNCHANGED <<scan, calls>>

\* another client of the collection deletes the record of a matricule, which
\* no call of the service does
RecordDeleted(matricule) ==
    /\ store[matricule] # NoDoc
    /\ store' = [store EXCEPT ![matricule] = NoDoc]
    /\ scan' = SelectSeq(scan, LAMBDA m : m # matricule)
    /\ view' = NoView
    /\ UNCHANGED <<now, last, batch, calls>>

----------------------------------------------------------------------------
(* Promotion: one record, semesters ingested in any order                  *)

BaseNotes ==
    [mc \in ModuleCodes |-> [c \in MatiereCodes |->
        [NCC |-> Num(1200), NSN |-> Num(1100), NSR |-> NaN, Moy |-> Num(1150),
         Capit |-> NaN]]]

PromoRow(moy, credit) ==
    [notes |-> BaseNotes, moy_general |-> moy,
     credit_total |-> credit, decision |-> NaN, matricule |-> [v |-> 100, t |-> "num"],
     dept |-> "DSI", prenom |-> "Ahmed", nom |-> "Vall"]

\* two result rows: average "12,00" with 19 credits, average 8.00 with "41,5"
\* credits.  Two of the first are 38 < 39 credits, two of the second average
\* 8 < 10, one of each average exactly 10 with 60 credits.
PromoRows ==
    {PromoRow(Str(1200), Num(1900)), PromoRow(Num(800), Str(4150))}

NextPromo ==
    \E row \in PromoRows, semester \in Semesters, year \in Years :
        SaveStudentNotes(student_of_row(row, semester, year), TRUE)

SpecPromo == Init /\ [][NextPromo]_vars

----------------------------------------------------------------------------
(* Merge and visibility: two records, writes that may fail, flags, reads   *)

NotesA ==
    [mc \in ModuleCodes |-> [c \in MatiereCodes |->
        [NCC |-> Num(1200), NSN |-> Str(1150), NSR |-> NaN, Moy |-> Num(1175),
         Capit |-> NaN]]]

NotesB ==
    [mc \in ModuleCodes |-> [c \in MatiereCodes |->
        [NCC |-> Blank, NSN |-> Num(700), NSR |-> Str(1050), Moy |-> Num(1050),
         Capit |-> Txt]]]

MergeRow(matricule, dept, notes) ==
    [notes |-> notes, moy_general |-> Num(1200),
     credit_total |-> Num(3000), decision |-> Txt, matricule |-> [v |-> matricule, t |-> "num"],
     dept |-> dept, prenom |-> "Ahmed", nom |-> "Vall"]

MergeMatricules == {100, 101}
MergeSemesters == {"S1", "S3"}
MergeYears == {<<2024, 2025>>}

\* the sheets' rows and the semester of their sheet: student 100 appears in
\* the sheets of both semesters, with either notes, student 101 in that of S1
MergeInputs ==
    ({MergeRow(100, "DSI", NotesA), MergeRow(100, "RSS", NotesB)} \X MergeSemesters)
        \cup {<<MergeRow(101, "DSI", NotesA), "S1">>}

NextMerge ==
    \/ \E input \in MergeInputs, year \in MergeYears, db_ok \in BOOLEAN :
            SaveStudentNotes(student_of_row(input[1], input[2], year), db_ok)
    \/ \E m \in MergeMatricules, semester \in MergeSemesters, v \in BOOLEAN :
            UpdateSemesterIsPublic(m, semester, v)
    \/ \E m \in MergeMatricules, v \in BOOLEAN : UpdateIsPublicGlobale(m, v)
    \/ \E m \in MergeMatricules : GetStudentNotes(m)
    \/ \E m \in MergeMatricules : GetStudentPublicNotes(m)

SpecMerge == Init /\ [][NextMerge]_vars

----------------------------------------------------------------------------
(* Batches: sheets of several rows, any of whose writes may fail           *)

BatchRow(matricule, dept) ==
    [notes |-> BaseNotes, moy_general |-> Num(1200),
     credit_total |-> Num(3000), decision |-> Txt, matricule |-> matricule,
     dept |-> dept, prenom |-> "Ahmed", nom |-> "Vall"]

Row100 == BatchRow([v |-> 100, t |-> "num"], "DSI")
Row100b == BatchRow([v |-> 100, t |-> "num"], "RSS")
Row101 == BatchRow([v |-> 101, t |-> "num"], "DSI")
Row102 == BatchRow([v |-> 102, t |-> "num"], "RSS")
RowBlank == BatchRow(NaN, "DSI")

BatchSheets ==
    {<<Row100, Row101, Row102>>, <<Row101, RowBlank, Row100>>,
     <<Row100, Row102, Row100b>>, <<Row102>>}

BatchSemesters == {"S1", "S2"}

NextBatch ==
    \E sheet \in BatchSheets, semester \in BatchSemesters, year \in MergeYears :
        LET students == students_of_rows(sheet, semester, year) IN
        \E fails \in SUBSET (1..Len(students)) :
            /\ now < MaxBatches
            /\ SaveMultipleStudentsNotes(students, fails)

SpecBatch == Init /\ [][NextBatch]_vars

----------------------------------------------------------------------------
(* Cross-term average: one record, semesters of any average               *)

\* ingestions in one behaviour of the average specification
MaxAverageSaves == 3

AverageRow(moy) ==
    [notes |-> BaseNotes, moy_general |-> moy,
     credit_total |-> Num(3000), decision |-> NaN, matricule |-> [v |-> 100, t |-> "num"],
     dept |-> "DSI", prenom |-> "Ahmed", nom |-> "Vall"]

\* the average cell of a row: 12.50, 10.00, "11,00", -5.00, "ABS", empty
AverageCells == {Num(1250), Num(1000), Str(1100), Num(-500), Txt, NaN}

AverageSemesters == {"S1", "S2", "S3"}

NextAverage ==
    \/ \E cell \in AverageCells, semester \in AverageSemesters :
            /\ now < MaxAverageSaves
            /\ SaveStudentNotes(
                    student_of_row(AverageRow(cell), semester, <<2024, 2025>>), TRUE)
    \/ GetStudentNotes(100)

SpecAverage == Init /\ [][NextAverage]_vars

----------------------------------------------------------------------------
(* Statistics: three records of any decision, average and credits          *)

\* ingestions in one behaviour of the statistics specification
MaxStatsSaves == 2

StatsRow(matricule, dept, moy, credit, decision) ==
    [notes |-> BaseNotes, moy_general |-> moy,
     credit_total |-> credit, decision |-> decision, matricule |-> [v |-> matricule, t |-> "num"],
     dept |-> dept, prenom |-> "Ahmed", nom |-> "Vall"]

Admis == Text(<<"A", "d", "m", "i", "s">>)
Rattrapage == Text(<<"R", "a", "t", "t", "r", "a", "p", "a", "g", "e">>)
AdmisRattrapage ==
    Text(<<"A", "d", "m", "i", "s", " ", "(", "r", "a", "t", "t", "r", "a", "p", "a", "g", "e", ")">>)

\* the rows of the sheets, the semester and the year of their sheet
StatsInputs ==
    {<<StatsRow(100, "DSI", Num(1600), Num(3000), Admis), "S1", <<2024, 2025>>>>,
     <<StatsRow(100, "DSI", Num(1250), Num(3000), Rattrapage), "S1", <<2024, 2025>>>>,
     <<StatsRow(100, "DSI", Num(-100), NaN, NaN), "S1", <<2024, 2025>>>>,
     <<StatsRow(100, "DSI", Num(1050), Num(3000), NaN), "S2", <<2025, 2026>>>>,
     <<StatsRow(101, "RSS", Str(1100), Num(3000), NaN), "S1", <<2024, 2025>>>>,
     <<StatsRow(101, "RSS", Num(900), Num(3000), Txt), "S1", <<2024, 2025>>>>,
     <<StatsRow(101, "RSS", Num(2150), Num(1200), NaN), "S1", <<2024, 2025>>>>,
     <<StatsRow(102, "DSI", Num(500), Num(1200), Rattrapage), "S1", <<2024, 2025>>>>,
     <<StatsRow(102, "DSI", Num(900), Num(1200), NaN), "S1", <<2024, 2025>>>>,
     <<StatsRow(102, "DSI", Num(800), Num(1200), AdmisRattrapage), "S1", <<2024, 2025>>>>}

StatsSemesters == {"S1", "S2"}

NextStats ==
    \/ \E input \in StatsInputs :
            /\ now < MaxStatsSaves
            /\ SaveStudentNotes(student_of_row(input[1], input[2], input[3]), TRUE)
    \/ \E semester \in {"S1", NoneStr}, department \in {"DSI", NoneStr},
          year \in {<<2025, 2026>>, NoneYear}, first \in [Matricules -> StatsSemesters] :
            GetStatistics(semester, department, year, first)

SpecStats == Init /\ [][NextStats]_vars

----------------------------------------------------------------------------
(* Extraction: grids of any semester cell, header row and data rows        *)

\* data rows of a grid
MaxRows == 2

RowSpaces == BatchRow(Blank, "DSI")
RowText == BatchRow(Txt, "RSS")

ExtractRows == {Row100, Row100b, Row101, RowBlank, RowSpaces, RowText}

\* the cell of the semester number: "3", 2, a text that is no number, empty
SemesterCells == {Str(300), Num(200), Txt, NaN}

\* the module-header rows from the fifth column on: one with a module, one
\* without
ExtractHeaders == <<(<<ModuleHeader("UE1"), NaN, NaN>>), (<<Txt, NaN, NaN>>)>>

NextExtract ==
    \E cell \in SemesterCells, h \in 1..Len(ExtractHeaders), n \in 0..MaxRows :
        \E rows \in [1..n -> ExtractRows] :
            ReadFile([rows |-> rows, header |-> ExtractHeaders[h], semester_cell |-> cell],
                     <<2024, 2025>>)

SpecExtract == Init /\ [][NextExtract]_vars

----------------------------------------------------------------------------
(* Subject scan: the module spans of grids of up to MaxColumns columns     *)

\* columns of the grid
MaxColumns == 6

\* cells of the subject-header row: a subject header, another text, empty
SubjectCells == {MatiereHeader, Txt, NaN}

\* a grid at hand and one of its module spans: a span starts at the column
\* of its module header and ends before the next module, or one column
\* before the last column of the grid
InitScan ==
    /\ store = [m \in Matricules |-> NoDoc]
    /\ scan = <<>>
    /\ now = 0
    /\ last = [m |-> 0, op |-> "none", semester |-> "", writes |-> 0,
               outcome |-> "none", sd |-> NoData, again |-> FALSE]
    /\ batch = NoBatch
    /\ calls = [p \in Callers |-> Idle]
    /\ \E n \in 1..MaxColumns :
        \E subject_row \in [1..n -> SubjectCells] :
            \E start \in 0..(n - 1) : \E end \in start..(n - 1) :
                view = [kind |-> "grid", m |-> 0,
                        doc |-> [subject_row |-> subject_row, end |-> end,
                                 start |-> start],
                        computed |-> NoComputed]

NextScan == ScanMatieres

SpecScan == InitScan /\ [][NextScan]_vars

----------------------------------------------------------------------------
(* Calls served at the same time: ingestions, a flag update, a retraction  *)

RaceRow(dept) ==
    [notes |-> NotesA, moy_general |-> Num(1200),
     credit_total |-> Num(3000), decision |-> Txt, matricule |-> [v |-> 100, t |-> "num"],
     dept |-> dept, prenom |-> "Ahmed", nom |-> "Vall"]

RaceSemesters == {"S1", "S2"}
RaceYear == <<2024, 2025>>

NextRace ==
    \/ \E p \in Callers, dept \in {"DSI", "RSS"}, semester \in RaceSemesters :
            SaveStudentNotesRead(p, student_of_row(RaceRow(dept), semester, RaceYear))
    \/ \E p \in Callers : SaveStudentNotesWrite(p)
    \/ \E p \in Callers, semester \in RaceSemesters, v \in BOOLEAN :
            UpdateSemesterIsPublicRead(p, 100, semester, v)
    \/ \E p \in Callers : UpdateSemesterIsPublicWrite(p)
    \/ \E semester \in RaceSemesters : DeleteNotesBySemesterAndYear(semester, RaceYear)
    \/ RecordDeleted(100)

SpecRace == Init /\ [][NextRace]_vars

----------------------------------------------------------------------------
(* Ranking: a persisted collection of any levels, read as a whole          *)

RankRow(matricule, dept, moy) ==
    [notes |-> BaseNotes, moy_general |-> moy,
     credit_total |-> Num(3000), decision |-> NaN, matricule |-> [v |-> matricule, t |-> "num"],
     dept |-> dept, prenom |-> "Ahmed", nom |-> "Vall"]

RankDepartments == {"DSI", "RSS"}
RankMoyennes == {Num(800), Num(1200)}

\* the semesters whose ingestion creates a record of level L1, L2 and L3
RankSemesters == {"S1", "S3", "S5"}

\* what the niveau of a record persisted by other means may read: a text that
\* is no level, or nothing (a record from before the field)
LegacyNiveaux == {niveau_string("M1", <<2024, 2025>>), NoNiveau}

\* the records a collection may hold for one matricule: those the creation of
\* a record makes, and those of an unparseable niveau
RankDocs(matricule) ==
    {new_document(student_of_row(RankRow(matricule, dept, moy), semester, <<2024, 2025>>), 0) :
        dept \in RankDepartments, moy \in RankMoyennes, semester \in RankSemesters}
    \cup
    {[new_document(student_of_row(RankRow(matricule, dept, moy), "S1", <<2024, 2025>>), 0)
        EXCEPT !.niveau = niveau] :
        dept \in RankDepartments, moy \in RankMoyennes, niveau \in LegacyNiveaux}

\* the orders in which the collection may hold a set of _ids
Orders(ids) ==
    {order \in [1..Cardinality(ids) -> ids] :
        \A i, j \in 1..Cardinality(ids) : i # j => order[i] # order[j]}

InitRank ==
    /\ \E d100 \in RankDocs(100) \cup {NoDoc}, d101 \in RankDocs(101) \cup {NoDoc},
          d102 \in RankDocs(102) \cup {NoDoc} :
            store = [m \in Matricules |->
                       CASE m = 100 -> d100 [] m = 101 -> d101 [] OTHER -> d102]
    /\ scan \in Orders({m \in Matricules : store[m] # NoDoc})
    /\ now = 0
    /\ last = [m |-> 0, op |-> "none", semester |-> "", writes |-> 0,
               outcome |-> "none", sd |-> NoData, again |-> FALSE]
    /\ view = NoView
    /\ batch = NoBatch
    /\ calls = [p \in Callers |-> Idle]

NextRank == GetAllNotes

SpecRank == InitRank /\ [][NextRank]_vars

----------------------------------------------------------------------------
(* Vocabulary of the claims                                                *)

\* a semester was just merged (created or updated) into the record of m
Merged(m, semester) ==
    /\ last.op = "save_student_notes"
    /\ last.outcome \in {"created", "updated"}
    /\ last.m = m
    /\ last.semester = semester

\* this step is a call of save_student_notes for m that merged a semester
MergeStep(m) == now' = now + 1 /\ Merged(m, last.semester)'

\* the number a stored moyenne_generale stands for, in hundredths
MoyenneValue(cell) == IF cell.t \in {"num", "str"} THEN cell.v ELSE 0

LevelRank == [l \in {"L1", "L2", "L3"} |-> CASE l = "L1" -> 1 [] l = "L2" -> 2 [] l = "L3" -> 3]

\* the level component of the stored niveau of m, 0 when there is none
StoredLevel(m) ==
    IF store[m] = NoDoc THEN 0
    ELSE IF store[m].niveau = NoNiveau THEN 0
    ELSE LevelRank[store[m].niveau.level]

FollowingYear(year) == <<year[1] + 1, year[2] + 1>>

Tag(level, year) == [level |-> level, year |-> year]

\* C1: across any sequence of save_student_notes ingestions for one matricule,
\* the level component (L1 < L2 < L3) of the stored niveau never decreases
\* from one state to the next.
C1_LevelNeverDecreases ==
    [][\A m \in Matricules : StoredLevel(m)' >= StoredLevel(m)]_vars

\* C2: when S2 is ingested, the niveau becomes L2 tagged with the year after
\* the S2 year iff S1 is present, (moyenne_generale[S1] + moyenne_generale[S2])
\* / 2 >= 10 and credit_total[S1] + credit_total[S2] >= 39; in every other
\* case it becomes L1 tagged with the S2 year.
C2_S2Promotion ==
    \A m \in Matricules :
        Merged(m, "S2") =>
            LET d == store[m]
                y == d.sems["S2"].year
                promoted ==
                    /\ d.sems["S1"] # NoSem
                    /\ MoyenneValue(d.sems["S1"].moyenne_generale)
                         + MoyenneValue(d.sems["S2"].moyenne_generale) >= 2000
                    /\ d.sems["S1"].credit_total + d.sems["S2"].credit_total >= 39
            IN d.niveau = IF promoted THEN Tag("L2", FollowingYear(y)) ELSE Tag("L1", y)

\* S2 was merged into a record holding S1 and the student was promoted
C2_Witness ==
    \E m \in Matricules :
        /\ Merged(m, "S2")
        /\ store[m].sems["S1"] # NoSem
        /\ store[m].niveau.level = "L2"

\* C3: when S4 is ingested, the niveau becomes L3 tagged with the year after
\* the S4 year iff S1, S2 and S3 are present, (moyenne_generale[S3] +
\* moyenne_generale[S4]) / 2 >= 10, credit_total[S1] + credit_total[S2] >= 39
\* and credit_total[S3] + credit_total[S4] >= 60; in every other case it
\* becomes L2 tagged with the S4 year.
C3_S4Promotion ==
    \A m \in Matricules :
        Merged(m, "S4") =>
            LET d == store[m]
                y == d.sems["S4"].year
                promoted ==
                    /\ \A s \in {"S1", "S2", "S3"} : d.sems[s] # NoSem
                    /\ MoyenneValue(d.sems["S3"].moyenne_generale)
                         + MoyenneValue(d.sems["S4"].moyenne_generale) >= 2000
                    /\ d.sems["S1"].credit_total + d.sems["S2"].credit_total >= 39
                    /\ d.sems["S3"].credit_total + d.sems["S4"].credit_total >= 60
            IN d.niveau = IF promoted THEN Tag("L3", FollowingYear(y)) ELSE Tag("L2", y)

\* S4 was merged into a record holding S1, S2 and S3 and the student was promoted
C3_Witness ==
    \E m \in Matricules :
        /\ Merged(m, "S4")
        /\ \A s \in {"S1", "S2", "S3"} : store[m].sems[s] # NoSem
        /\ store[m].niveau.level = "L3"

NominalLevel(semester) ==
    CASE semester \in {"S1", "S2"} -> "L1"
      [] semester \in {"S3", "S4"} -> "L2"
      [] semester \in {"S5", "S6"} -> "L3"

\* C4: when a semester other than S2 or S4 is ingested, with nominal level L1
\* for semesters 1-2, L2 for 3-4, L3 for 5-6: a record with no niveau gets the
\* nominal level and the incoming year; a nominal level strictly above the
\* stored one replaces it, with the incoming year; strictly below, the niveau
\* is unchanged; equal with a different year, only the year changes; equal
\* level and year, nothing changes.
C4_OtherSemesters ==
    [][\A m \in Matricules :
        (MergeStep(m) /\ last'.semester \notin {"S2", "S4"}) =>
            LET nominal == NominalLevel(last'.semester)
                y == last'.sd.block.year
                after == store'[m].niveau
            IN  IF StoredLevel(m) = 0 THEN after = Tag(nominal, y)
                ELSE LET current == store[m].niveau IN
                     IF LevelRank[nominal] > StoredLevel(m) THEN after = Tag(nominal, y)
                     ELSE IF LevelRank[nominal] < StoredLevel(m) THEN after = current
                     ELSE IF current.year # y THEN after = Tag(current.level, y)
                     ELSE after = current]_vars

\* S3 (nominal L2) was merged into a record that stands at L3 and stays there
C4_Witness ==
    \E m \in Matricules :
        /\ Merged(m, "S3")
        /\ last.outcome = "updated"
        /\ store[m].niveau.level = "L3"

\* C5: merging an incoming semester X into an existing record leaves every
\* other semester subtree of the record (keys, values, isPublic flags) exactly
\* as it was before the merge.
C5_OtherSemestersUntouched ==
    [][\A m \in Matricules : \A s \in Semesters :
        (MergeStep(m) /\ store[m] # NoDoc /\ s # last'.semester) =>
            store'[m].sems[s] = store[m].sems[s]]_vars

\* a semester was merged into a record that holds another, public, semester
C5_Witness ==
    \E m \in Matricules : \E s \in Semesters :
        /\ Merged(m, last.semester)
        /\ last.outcome = "updated"
        /\ s # last.semester
        /\ store[m].sems[s] # NoSem
        /\ store[m].sems[s].isPublic

\* C6: merging the identical payload twice in a row leaves the record after
\* the second merge equal to the record after the first in every field except
\* updated_at, niveau included.
C6_MergeTwice ==
    [][\A m \in Matricules :
        (MergeStep(m) /\ last'.again) =>
            store'[m] = [store[m] EXCEPT !.updated_at = store'[m].updated_at]]_vars

\* the same payload was merged twice in a row
C6_Witness ==
    /\ last.op = "save_student_notes"
    /\ last.outcome = "updated"
    /\ last.again

\* the record of m was created by the last write, and then read
ReadAfterCreate(m, kind) ==
    /\ last.op = "save_student_notes"
    /\ last.outcome = "created"
    /\ last.m = m
    /\ view.kind = kind
    /\ view.m = m

\* C7: for a matricule with no stored record, ingesting a parsed semester and
\* reading the record back returns, for every module and subject, the four
\* note components and the Capit indicator equal to the parsed values.
C7_RoundTrip ==
    \A m \in Matricules :
        ReadAfterCreate(m, "full") =>
            \A mc \in ModuleCodes : \A c \in MatiereCodes :
                LET got == view.doc.sems[last.semester].modules[mc][c]
                    parsed == last.sd.block.modules[mc][c]
                IN /\ got.NCC = parsed.NCC
                   /\ got.NSN = parsed.NSN
                   /\ got.NSR = parsed.NSR
                   /\ got.Moy = parsed.Moy
                   /\ got.Capit = parsed.Capit

\* a record was created from a row with an empty Capit cell, then read back
C7_Witness ==
    \E m \in Matricules :
        /\ ReadAfterCreate(m, "full")
        /\ \E mc \in ModuleCodes : \E c \in MatiereCodes :
              last.sd.block.modules[mc][c].Capit = NoneV

\* C8: a single-student merge issues exactly one write, keyed by matricule;
\* if the write fails the collection (so every later read) is as before the
\* merge, and if it succeeds every field of the merged document is there
\* together: identity fields, the semester subtree, niveau and updated_at.
C8_OneWrite ==
    [][\A m \in Matricules :
        (now' = now + 1 /\ last'.op = "save_student_notes" /\ last'.m = m) =>
            /\ last'.writes = 1
            /\ IF last'.outcome = "error"
               THEN store' = store /\ scan' = scan
               ELSE /\ \A k \in Matricules \ {m} : store'[k] = store[k]
                    /\ store'[m].sems[last'.semester] = last'.sd.block
                    /\ store'[m].department = last'.sd.department
                    /\ store'[m].prenom = last'.sd.prenom
                    /\ store'[m].nom = last'.sd.nom
                    /\ store'[m].updated_at = now
                    /\ store'[m].niveau # NoNiveau]_vars

\* the write of a merge into an existing record failed, and the record was read
C8_Witness ==
    /\ last.op = "save_student_notes"
    /\ last.outcome = "error"
    /\ store[last.m] # NoDoc
    /\ view.kind = "full"
    /\ view.m = last.m

\* C9: batch ingestion attempts every student of the batch: a save that fails
\* is recorded as a {matricule, error} entry and does not prevent the students
\* after it from being saved, and created + updated + number of error entries
\* equals total.
C9_BatchGoesOn ==
    batch.done =>
        LET r == batch.results
            students == batch.students
        IN /\ r.total = Len(students)
           /\ r.created + r.updated + Len(r.errors) = r.total
           /\ \A i \in 1..Len(students) :
                IF i \in batch.fails
                THEN \E e \in 1..Len(r.errors) :
                        r.errors[e].matricule = students[i].matricule
                ELSE /\ store[students[i].matricule] # NoDoc
                     /\ store[students[i].matricule].sems[students[i].semester]
                            = students[i].block
                     /\ store[students[i].matricule].updated_at = now - 1

\* the save of one student of a batch failed and a student after it was saved
C9_Witness ==
    /\ batch.done
    /\ \E i, j \in 1..Len(batch.students) :
          /\ i < j
          /\ i \in batch.fails
          /\ j \notin batch.fails
          /\ store[batch.students[j].matricule] # NoDoc

\* C10: a record created by the first ingestion for a matricule has
\* isPublicGlobale = false and the ingested semester's isPublic = false, so
\* its public projection right after creation holds no semester subtree and
\* no computed field.
C10_CreatedPrivate ==
    \A m \in Matricules :
        (last.op = "save_student_notes" /\ last.outcome = "created" /\ last.m = m) =>
            /\ store[m].isPublicGlobale = FALSE
            /\ store[m].sems[last.semester].isPublic = FALSE
            /\ (ReadAfterCreate(m, "public") =>
                  /\ \A s \in Semesters : view.doc.sems[s] = NoSem
                  /\ view.computed = NoComputed)

\* a record was created and its public projection read
C10_Witness == \E m \in Matricules : ReadAfterCreate(m, "public")

\* the last call was a read of the public projection of a stored record
PublicView == view.kind = "public"

\* C11: the public projection of a record contains a semester subtree if and
\* only if that semester is stored in the record with isPublic true (and the
\* subtree is the stored one); a semester whose isPublic is false never
\* appears; the identity fields and the niveau always appear.
C11_PublicSemestersOnly ==
    PublicView =>
        LET record == store[view.m] IN
        /\ \A s \in Semesters :
              /\ (view.doc.sems[s] # NoSem) <=>
                    (record.sems[s] # NoSem /\ record.sems[s].isPublic = TRUE)
              /\ view.doc.sems[s] # NoSem => view.doc.sems[s] = record.sems[s]
        /\ view.doc.matricule = record.matricule
        /\ view.doc.department = record.department
        /\ view.doc.prenom = record.prenom
        /\ view.doc.nom = record.nom
        /\ view.doc.niveau = record.niveau

\* a projection was read of a record holding a private semester, which it
\* omits, and a public one, which it includes
C11_Witness ==
    /\ PublicView
    /\ \E s1, s2 \in Semesters :
          /\ store[view.m].sems[s1] # NoSem
          /\ store[view.m].sems[s1].isPublic = FALSE
          /\ view.doc.sems[s1] = NoSem
          /\ store[view.m].sems[s2] # NoSem
          /\ store[view.m].sems[s2].isPublic = TRUE
          /\ view.doc.sems[s2] = store[view.m].sems[s2]

\* C12: the public projection contains the three computed fields
\* (moyenne_generale_allsemestre, rang_generall_allsemestre,
\* rang_allsemestre_dep) if and only if the record's isPublicGlobale is true;
\* when it is false the three keys are absent, not present with value 0.
C12_ComputedIffGlobale ==
    PublicView =>
        IF store[view.m].isPublicGlobale
        THEN DOMAIN view.computed = {"moyenne_generale_allsemestre",
                                     "rang_generall_allsemestre",
                                     "rang_allsemestre_dep"}
        ELSE view.computed = NoComputed

\* a projection was read of a record whose isPublicGlobale is true, and it
\* carries the record's ranks
C12_Witness ==
    /\ PublicView
    /\ store[view.m].isPublicGlobale
    /\ view.computed # NoComputed
    /\ view.computed.rang_generall_allsemestre >= 1
    /\ view.computed.rang_allsemestre_dep >= 1

\* the last call was a read of the whole collection
AllView == view.kind = "all"

\* the places of the collection read by get_all_notes
Places == 1..Len(view.doc)

\* the level of the i-th record read: that of its niveau, L1 when the niveau
\* is absent or is no level
PlaceLevel(i) ==
    LET niveau == view.doc[i].doc.niveau IN
    IF niveau = NoNiveau THEN 1
    ELSE IF niveau.level \in DOMAIN LevelRank THEN LevelRank[niveau.level]
    ELSE 1

\* the niveau of the i-th record read cannot be parsed
PlaceUnparsed(i) ==
    LET niveau == view.doc[i].doc.niveau IN
    niveau = NoNiveau \/ niveau.level \notin DOMAIN LevelRank

GeneralRank(i) == view.computed[i].rang_generall_allsemestre
DepartmentRank(i) == view.computed[i].rang_allsemestre_dep
CrossTermAverage(i) == view.computed[i].moyenne_generale_allsemestre

\* C13: for a collection of M records with distinct matricules, the general
\* ranks are exactly {1,...,M} with no duplicates; every L3 record's general
\* rank is smaller than every L2 record's, which is smaller than every L1
\* record's; a record whose niveau cannot be parsed is ranked in the L1
\* partition (after every L2 and L3 record, and among the L1 records by its
\* average).
C13_GeneralRanks ==
    AllView =>
        /\ {GeneralRank(i) : i \in Places} = 1..Len(view.doc)
        /\ \A i, j \in Places : i # j => GeneralRank(i) # GeneralRank(j)
        /\ \A i, j \in Places : PlaceLevel(i) > PlaceLevel(j) => GeneralRank(i) < GeneralRank(j)
        /\ \A i, j \in Places :
              /\ PlaceUnparsed(i) /\ PlaceLevel(j) = 1
              /\ CrossTermAverage(i) > CrossTermAverage(j)
              => GeneralRank(i) < GeneralRank(j)

\* a collection of three records was read that holds an L3 record, an L2
\* record and a record of unparseable niveau, the last ranked third
C13_Witness ==
    /\ AllView
    /\ Len(view.doc) = 3
    /\ \E i, j, k \in Places :
          /\ PlaceLevel(i) = 3 /\ PlaceLevel(j) = 2
          /\ PlaceUnparsed(k) /\ GeneralRank(k) = 3
          /\ CrossTermAverage(k) > CrossTermAverage(i)

\* the places of the records of a level
LevelPlaces(level) == {i \in Places : PlaceLevel(i) = level}

\* C14, as stated: for every level partition that contains N records, the set
\* of general ranks assigned to the records of that partition is exactly
\* {1,...,N}.
C14_PartitionRanksFromOne ==
    AllView =>
        \A level \in 1..3 :
            {GeneralRank(i) : i \in LevelPlaces(level)}
                = 1..Cardinality(LevelPlaces(level))

\* C14, amended: for every level partition that contains N records, the set
\* of general ranks assigned to its records is the N consecutive integers
\* {K+1,...,K+N}, where K is the number of records of the higher levels.
C14_PartitionRanksConsecutive ==
    AllView =>
        \A level \in 1..3 :
            LET K == Cardinality({i \in Places : PlaceLevel(i) > level})
                N == Cardinality(LevelPlaces(level))
            IN {GeneralRank(i) : i \in LevelPlaces(level)} = (K + 1)..(K + N)

\* a collection was read whose L2 partition of two records follows an L3 record
C14_Witness ==
    /\ AllView
    /\ Cardinality(LevelPlaces(3)) = 1
    /\ Cardinality(LevelPlaces(2)) = 2
    /\ {GeneralRank(i) : i \in LevelPlaces(2)} = {2, 3}

\* the places of the records that share the level and the department string
\* of the i-th
GroupOf(i) ==
    {j \in Places : /\ PlaceLevel(j) = PlaceLevel(i)
                    /\ view.doc[j].doc.department = view.doc[i].doc.department}

\* C15: for every group of N records sharing the same level and the same
\* department string, the department ranks of the group are exactly
\* {1,...,N}; within the group a record with a strictly higher cross-term
\* average has a strictly smaller department rank; records of another level
\* or department never affect the group's ranks: each rank is one more than
\* the number of records of the group that come before it (a higher average,
\* or the same average and an earlier place).
C15_DepartmentRanks ==
    AllView =>
        \A i \in Places :
            /\ {DepartmentRank(j) : j \in GroupOf(i)} = 1..Cardinality(GroupOf(i))
            /\ \A j \in GroupOf(i) :
                  CrossTermAverage(i) > CrossTermAverage(j)
                  => DepartmentRank(i) < DepartmentRank(j)
            /\ DepartmentRank(i) = 1 + Cardinality(
                  {j \in GroupOf(i) :
                      \/ CrossTermAverage(j) > CrossTermAverage(i)
                      \/ CrossTermAverage(j) = CrossTermAverage(i) /\ j < i})

\* a collection was read with a group of two records of different averages,
\* the higher one later in the collection, and a third record of the same
\* department, another level and a still higher average
C15_Witness ==
    /\ AllView
    /\ \E i, j, k \in Places :
          /\ j \in GroupOf(i) /\ i < j
          /\ CrossTermAverage(j) > CrossTermAverage(i)
          /\ DepartmentRank(j) = 1 /\ DepartmentRank(i) = 2
          /\ view.doc[k].doc.department = view.doc[i].doc.department
          /\ PlaceLevel(k) # PlaceLevel(i)
          /\ CrossTermAverage(k) > CrossTermAverage(i)
          /\ DepartmentRank(k) = 1

\* the last call was a read of the full record of a stored matricule
FullView == view.kind = "full"

\* the semesters of the record read whose moyenne_generale stands for a
\* strictly positive number
PositiveSemesters ==
    {s \in Semesters : /\ view.doc.sems[s] # NoSem
                       /\ MoyenneValue(view.doc.sems[s].moyenne_generale) > 0}

RECURSIVE MoyenneSum(_)
MoyenneSum(semesters) ==
    IF semesters = {} THEN 0
    ELSE LET s == CHOOSE x \in semesters : TRUE
         IN MoyenneValue(view.doc.sems[s].moyenne_generale) + MoyenneSum(semesters \ {s})

\* C16, as stated: the cross-term average of a record is the arithmetic mean
\* of moyenne_generale over exactly the semesters whose value is strictly
\* positive, and 0 when the record has no such semester.
C16_ExactMean ==
    FullView =>
        IF PositiveSemesters = {}
        THEN view.computed.moyenne_generale_allsemestre = 0
        ELSE view.computed.moyenne_generale_allsemestre * Cardinality(PositiveSemesters)
                = MoyenneSum(PositiveSemesters)

\* C16, amended: the cross-term average of a record is the arithmetic mean of
\* moyenne_generale over exactly the semesters whose value is strictly
\* positive (a zero, negative, missing or unparseable value counts in neither
\* the sum nor the divisor), rounded to two decimals (it is within half a
\* hundredth of the mean), and 0 when the record has no such semester.
C16_RoundedMean ==
    FullView =>
        LET n == Cardinality(PositiveSemesters)
            average == view.computed.moyenne_generale_allsemestre
            gap == n * average - MoyenneSum(PositiveSemesters)
        IN IF n = 0 THEN average = 0
           ELSE /\ 2 * gap <= n
                /\ 2 * gap >= -n

\* a record was read with two semesters of positive average, 12.50 and
\* "11,00", and a third of a non-positive one: its average is 11.75
C16_Witness ==
    /\ FullView
    /\ Cardinality(PositiveSemesters) = 2
    /\ \E s \in Semesters \ PositiveSemesters : view.doc.sems[s] # NoSem
    /\ MoyenneSum(PositiveSemesters) = 2350
    /\ view.computed.moyenne_generale_allsemestre = 1175

\* the last call was a get_statistics
StatsView == view.kind = "stats"

\* the places of the records selected by the filters of the call
Selected ==
    1..Len(get_filtered_notes(store, scan, view.doc.semester, view.doc.department,
                              view.doc.year))

\* the semester subtree of the i-th selected record that the call reads: that
\* of the semester asked for, or the first of the record
StatData(i) ==
    LET note == get_filtered_notes(store, scan, view.doc.semester,
                                   view.doc.department, view.doc.year)[i]
    IN IF view.doc.semester # NoneStr THEN note.doc.sems[view.doc.semester]
       ELSE note.doc.sems[view.doc.first[id_int(note.id)]]

StatAverage(i) == MoyenneValue(StatData(i).moyenne_generale)

\* the decision text holds the admission keyword, the makeup keyword
HasAdmis(i) ==
    LET decision == StatData(i).decision IN
    decision.t = "text" /\ (decision.v = Admis.v \/ decision.v = AdmisRattrapage.v)
HasRattrapage(i) ==
    LET decision == StatData(i).decision IN
    decision.t = "text" /\ (decision.v = Rattrapage.v \/ decision.v = AdmisRattrapage.v)

\* the class of the i-th selected record by the priority of the claim:
\* admission keyword, then makeup keyword, then the numbers
KeywordsFirstClass(i) ==
    IF HasAdmis(i) THEN "passed"
    ELSE IF HasRattrapage(i) THEN "rattrapage"
    ELSE IF StatAverage(i) >= 1000 /\ StatData(i).credit_total >= 30 THEN "passed"
    ELSE IF StatAverage(i) < 1000 /\ StatData(i).credit_total < 30 THEN "rattrapage"
    ELSE "failed"

\* the class by the amended priority: admission keyword, then the numeric
\* pass, then makeup keyword, then the numeric makeup
NumericPassFirstClass(i) ==
    IF HasAdmis(i) THEN "passed"
    ELSE IF StatAverage(i) >= 1000 /\ StatData(i).credit_total >= 30 THEN "passed"
    ELSE IF HasRattrapage(i) THEN "rattrapage"
    ELSE IF StatAverage(i) < 1000 /\ StatData(i).credit_total < 30 THEN "rattrapage"
    ELSE "failed"

\* C17, as stated: get_statistics classifies each selected record by this
\* priority: a decision text containing ADMIS gives pass; otherwise a decision
\* text containing RATTRAPAGE gives rattrapage, whatever the numeric fields
\* are; only when neither keyword is present does the numeric rule apply:
\* pass if average >= 10 and credits >= 30, rattrapage if average < 10 and
\* credits < 30, fail otherwise.
C17_KeywordsFirst ==
    StatsView =>
        /\ view.computed.passed
              = Cardinality({i \in Selected : KeywordsFirstClass(i) = "passed"})
        /\ view.computed.rattrapage
              = Cardinality({i \in Selected : KeywordsFirstClass(i) = "rattrapage"})
        /\ view.computed.failed
              = Cardinality({i \in Selected : KeywordsFirstClass(i) = "failed"})

\* C17, amended: a decision text containing ADMIS gives pass; otherwise an
\* average >= 10 with credits >= 30 gives pass, whatever the decision text
\* is; otherwise a decision text containing RATTRAPAGE gives rattrapage;
\* otherwise rattrapage if average < 10 and credits < 30, fail otherwise.
C17_NumericPassFirst ==
    StatsView =>
        /\ view.computed.passed
              = Cardinality({i \in Selected : NumericPassFirstClass(i) = "passed"})
        /\ view.computed.rattrapage
              = Cardinality({i \in Selected : NumericPassFirstClass(i) = "rattrapage"})
        /\ view.computed.failed
              = Cardinality({i \in Selected : NumericPassFirstClass(i) = "failed"})

\* statistics were computed over two records, one whose decision holds the
\* makeup keyword with an average >= 10 and 30 credits, counted as passed,
\* and one whose decision holds it with an average < 10, counted as rattrapage
C17_Witness ==
    /\ StatsView
    /\ \E i, j \in Selected :
          /\ HasRattrapage(i) /\ ~HasAdmis(i)
          /\ StatAverage(i) >= 1000 /\ StatData(i).credit_total >= 30
          /\ HasRattrapage(j) /\ ~HasAdmis(j) /\ StatAverage(j) < 1000
    /\ view.computed.passed = 1
    /\ view.computed.rattrapage = 1

\* the selected records with a usable average
Usable == {i \in Selected : StatAverage(i) >= 0}

\* the average x of a record belongs to the bucket b: b is a nearest
\* integer, or x is above 20 and b is 20
InBucket(x, b) ==
    \/ x - 100 * b <= 50 /\ 100 * b - x <= 50
    \/ x > 2000 /\ b = 20

RECURSIVE CountSum(_, _)
CountSum(distribution, n) ==
    IF n = 0 THEN 0 ELSE distribution[n].count + CountSum(distribution, n - 1)

\* C18: in every get_statistics result with a non-empty population, the
\* distribution has exactly 21 buckets indexed 0..20, each record with a
\* usable average (>= 0) is tallied in exactly one bucket (values above 20 in
\* bucket 20), the sum of the 21 bucket counts equals the number of records
\* with a usable average, and that number is the denominator of every bucket
\* percentage.
C18_Histogram ==
    (StatsView /\ Selected # {}) =>
        LET distribution == view.computed.average_distribution IN
        /\ Len(distribution) = 21
        /\ \A b \in 0..20 : distribution[b + 1].average = b
        /\ \A b \in 0..20 :
              distribution[b + 1].count
                <= Cardinality({i \in Usable : InBucket(StatAverage(i), b)})
        /\ CountSum(distribution, 21) = Cardinality(Usable)
        /\ \A b \in 0..20 :
              LET gap == Cardinality(Usable) * distribution[b + 1].percentage
                            - 10000 * distribution[b + 1].count
              IN IF Usable = {} THEN distribution[b + 1].percentage = 0
                 ELSE 2 * gap <= Cardinality(Usable) /\ 2 * gap >= -Cardinality(Usable)

\* statistics were computed over two records, one of a negative average,
\* left out of the distribution, and one of an average above 20, the only
\* one of the bucket 20, which holds 100 percent
C18_Witness ==
    /\ StatsView
    /\ Cardinality(Selected) = 2
    /\ Cardinality(Usable) = 1
    /\ \E i \in Usable : StatAverage(i) > 2000
    /\ view.computed.average_distribution[21].count = 1
    /\ view.computed.average_distribution[21].percentage = 10000

\* the last call was a run of the extractor
ExtractView == view.kind = "extract"

\* the layout of the grid read is valid: its semester-number cell is an
\* integer and its module-header row names a module
ValidLayout ==
    /\ view.doc.semester_cell.t \in {"num", "str"}
    /\ view.doc.semester_cell.v % 100 = 0
    /\ \E i \in 1..Len(view.doc.header) : view.doc.header[i].t = "header"

\* the data rows of the grid read whose matricule cell is not blank (empty
\* or of spaces only)
NonBlankRows ==
    {i \in 1..Len(view.doc.rows) : view.doc.rows[i].matricule.t \notin {"nan", "blank"}}

\* C19: for any grid with a valid layout, the number of per-student semester
\* records produced by the extractor equals the number of data rows whose
\* matricule cell is non-blank; rows with a blank matricule produce no record
\* and no error.
C19_OneRecordPerRow ==
    (ExtractView /\ ValidLayout) =>
        /\ Len(view.computed.students) = Cardinality(NonBlankRows)
        /\ (\A i \in 1..Len(view.doc.rows) : view.doc.rows[i].matricule.t \in {"nan", "blank", "num"})
              => ~view.computed.raised

\* C20: if the semester-number cell of the grid cannot be parsed as an
\* integer, or the module-header row yields zero modules, layout detection
\* fails with an error and the parse produces no student record at all.
C20_LayoutFailure ==
    (ExtractView /\ ~ValidLayout) =>
        /\ view.computed.raised
        /\ view.computed.students = <<>>

\* the stored S1 and S2 of m meet the thresholds of the promotion to L2
MeetsL2Thresholds(m) ==
    /\ store[m].sems["S1"] # NoSem
    /\ store[m].sems["S2"] # NoSem
    /\ MoyenneValue(store[m].sems["S1"].moyenne_generale)
         + MoyenneValue(store[m].sems["S2"].moyenne_generale) >= 2000
    /\ store[m].sems["S1"].credit_total + store[m].sems["S2"].credit_total >= 39

\* C22: promotion is evaluated only in the step that ingests S2 (resp. S4):
\* when S1 is ingested into a record that holds S2 but no S1 and stands at L1,
\* the ingestion leaves the level at L1 even when the S1/S2 average and credit
\* thresholds are met, so the final niveau depends on the order of S1 and S2;
\* likewise S3 ingested into a record that holds S4 but no S3 and stands at
\* L2 leaves the level at L2.
C22_PromotionOnlyAtS2 ==
    [][\A m \in Matricules :
        /\ (/\ MergeStep(m)
            /\ last'.semester = "S1"
            /\ store[m] # NoDoc
            /\ StoredLevel(m) = 1
            /\ store[m].sems["S1"] = NoSem
            /\ store[m].sems["S2"] # NoSem) => StoredLevel(m)' = 1
        /\ (/\ MergeStep(m)
            /\ last'.semester = "S3"
            /\ store[m] # NoDoc
            /\ StoredLevel(m) = 2
            /\ store[m].sems["S3"] = NoSem
            /\ store[m].sems["S4"] # NoSem) => StoredLevel(m)' = 2]_vars

\* S1 was merged after S2, the two meet the thresholds, and the record of two
\* semesters stands at L1 (merged in the other order it stands at L2)
C22_Witness ==
    \E m \in Matricules :
        /\ Merged(m, "S1")
        /\ last.outcome = "updated"
        /\ MeetsL2Thresholds(m)
        /\ \A s \in Semesters \ {"S1", "S2"} : store[m].sems[s] = NoSem
        /\ store[m].niveau.level = "L1"

\* in a merge step: semester s of the record of m as the promotion decision
\* should see it, the incoming block for the semester being ingested and the
\* stored subtree for any other
DecisionView(m, s) ==
    IF s = last'.semester THEN last'.sd.block ELSE store[m].sems[s]

\* C23: the promotion decision made while ingesting semester X is computed on
\* a view of the record in which X already holds the incoming values (not the
\* previously stored values of X) and all other semesters hold their stored
\* values, and the niveau field is written in the same store update as the
\* semester subtree.
C23_DecisionOnIncoming ==
    [][\A m \in Matricules :
        (MergeStep(m) /\ store[m] # NoDoc /\ last'.semester \in {"S2", "S4"}) =>
            LET y == last'.sd.block.year
                credits(s) == DecisionView(m, s).credit_total
                moyenne(s) == MoyenneValue(DecisionView(m, s).moyenne_generale)
                to_l2 ==
                    /\ DecisionView(m, "S1") # NoSem
                    /\ moyenne("S1") + moyenne("S2") >= 2000
                    /\ credits("S1") + credits("S2") >= 39
                to_l3 ==
                    /\ \A s \in {"S1", "S2", "S3"} : DecisionView(m, s) # NoSem
                    /\ moyenne("S3") + moyenne("S4") >= 2000
                    /\ credits("S1") + credits("S2") >= 39
                    /\ credits("S3") + credits("S4") >= 60
            IN  /\ last'.writes = 1
                /\ store'[m].sems[last'.semester] = last'.sd.block
                /\ store'[m].niveau =
                      IF last'.semester = "S2"
                      THEN (IF to_l2 THEN Tag("L2", FollowingYear(y)) ELSE Tag("L1", y))
                      ELSE (IF to_l3 THEN Tag("L3", FollowingYear(y)) ELSE Tag("L2", y))]_vars

\* S2 was merged again into a record of S1 and S2 only that had been written
\* twice before, and the student is promoted on the values now stored
C23_Witness ==
    \E m \in Matricules :
        /\ Merged(m, "S2")
        /\ last.outcome = "updated"
        /\ \A s \in Semesters \ {"S1", "S2"} : store[m].sems[s] = NoSem
        /\ store[m].updated_at >= store[m].created_at + 2
        /\ MeetsL2Thresholds(m)
        /\ store[m].niveau.level = "L2"

\* C24: within one level partition (and within one level+department group), a
\* record with a strictly higher cross-term average always receives a
\* strictly smaller rank, and two records with equal cross-term averages are
\* ranked in the order in which they appear in the input collection.
C24_StableRanks ==
    AllView =>
        \A i \in Places : \A j \in Places :
            LET before == \/ CrossTermAverage(i) > CrossTermAverage(j)
                          \/ CrossTermAverage(i) = CrossTermAverage(j) /\ i < j
            IN  /\ (PlaceLevel(i) = PlaceLevel(j) /\ before)
                      => GeneralRank(i) < GeneralRank(j)
                /\ (j \in GroupOf(i) /\ before)
                      => DepartmentRank(i) < DepartmentRank(j)

\* a collection was read in which two records of one level and department
\* have the same average and a third, later in the collection, a higher one
C24_Witness ==
    /\ AllView
    /\ \E i \in Places : \E j \in GroupOf(i) : \E k \in GroupOf(i) :
          /\ i < j
          /\ j < k
          /\ CrossTermAverage(i) = CrossTermAverage(j)
          /\ CrossTermAverage(k) > CrossTermAverage(i)
          /\ DepartmentRank(k) = 1
          /\ DepartmentRank(i) = 2
          /\ DepartmentRank(j) = 3

\* this step is a call of the flag update op
FlagStep(op) == now' = now + 1 /\ last'.op = op

\* C26: update_semester_ispublic fails with a not-found error when the
\* matricule has no record or the record lacks the requested semester, and
\* update_ispublic_globale fails when the matricule has no record; in each
\* failing case no record in the store is created or modified.
C26_FlagNotFound ==
    [][/\ FlagStep("update_semester_ispublic") =>
            LET missing == \/ store[last'.m] = NoDoc
                           \/ store[last'.m].sems[last'.semester] = NoSem
            IN  /\ missing => last'.outcome = "not_found"
                /\ last'.outcome = "not_found" => (store' = store /\ scan' = scan)
       /\ FlagStep("update_ispublic_globale") =>
            /\ store[last'.m] = NoDoc => last'.outcome = "not_found"
            /\ last'.outcome = "not_found" => (store' = store /\ scan' = scan)]_vars

\* the flag of a semester was asked for a record that exists but lacks the
\* semester, and the call failed
C26_Witness ==
    /\ last.op = "update_semester_ispublic"
    /\ last.outcome = "not_found"
    /\ store[last.m] # NoDoc
    /\ store[last.m].sems[last.semester] = NoSem

\* C29: re-ingesting semester X for a record that already has X replaces the
\* whole X subtree, so afterwards X.isPublic equals the value carried by the
\* incoming payload (false as produced by the parser) even if the student had
\* set it to true; the isPublic flags of the other semesters and
\* isPublicGlobale are unchanged by the ingestion.
C29_ReingestResetsFlag ==
    [][\A m \in Matricules :
        (/\ MergeStep(m)
         /\ store[m] # NoDoc
         /\ store[m].sems[last'.semester] # NoSem) =>
            /\ store'[m].sems[last'.semester] = last'.sd.block
            /\ store'[m].sems[last'.semester].isPublic = FALSE
            /\ store'[m].isPublicGlobale = store[m].isPublicGlobale
            /\ \A s \in Semesters \ {last'.semester} :
                  store[m].sems[s] # NoSem =>
                      /\ store'[m].sems[s] # NoSem
                      /\ store'[m].sems[s].isPublic = store[m].sems[s].isPublic]_vars

\* the one semester of a record was ingested again after isPublicGlobale had
\* been set: the semester is not public and isPublicGlobale stands
C29_Witness ==
    \E m \in Matricules :
        /\ Merged(m, last.semester)
        /\ last.outcome = "updated"
        /\ \A s \in Semesters \ {last.semester} : store[m].sems[s] = NoSem
        /\ store[m].isPublicGlobale
        /\ ~store[m].sems[last.semester].isPublic

\* C30: in the public projection of a record with isPublicGlobale true, the
\* reported cross-term average (moyenne_generale_allsemestre) equals the
\* cross-term average of the full stored record over all its semesters,
\* public or not, i.e. the same value that the ranking uses to place the
\* record.
C30_PublicAverageIsFull ==
    (PublicView /\ view.computed # NoComputed) =>
        view.computed.moyenne_generale_allsemestre
            = calculate_moyenne_generale_allsemestre(store[view.m])

\* the last call was a scan of the subjects of a module span
ScanView == view.kind = "scan"

\* the cell of the subject-header row at column col (counted from 0) matches
\* code:name
IsMatiere(col) == view.doc.subject_row[col + 1].t = "matiere"

\* the column the scan goes to after column col
Resume(col) == IF IsMatiere(col) THEN col + 5 ELSE col + 1

UpdatePending(p) ==
    /\ calls[p].op = "save_student_notes"
    /\ calls[p].existing # NoDoc

\* this step is the write of the call of caller p, with which the call ends
WriteStep(p) == calls[p] # Idle /\ calls'[p] = Idle

\* C21: when the update write of a merge for a record that was read as
\* existing reports zero matched documents (the record vanished between the
\* read and the write), save_student_notes surfaces an error to the caller
\* instead of reporting the operation as "updated", and it does not retry the
\* write.
C21_VanishedRecordIsAnError ==
    [][\A p \in Callers :
        (/\ UpdatePending(p)
         /\ WriteStep(p)
         /\ store[calls[p].sd.matricule] = NoDoc) =>
            /\ last'.outcome = "error"
            /\ last'.writes = 1
            /\ store' = store]_vars

\* C27: when two ingestions for the same existing matricule carrying different
\* semester codes interleave (each reads the record, then writes), both
\* semester subtrees are present in the record after both have completed:
\* the write of an ingestion, whatever was written since its read, leaves
\* every other semester as the store holds it and puts its own; only the
\* fields every ingestion writes (identity fields, niveau, updated_at) are
\* those of the last writer.
C27_ConcurrentSemestersKept ==
    [][\A p \in Callers :
        (/\ UpdatePending(p)
         /\ WriteStep(p)
         /\ store[calls[p].sd.matricule] # NoDoc) =>
            LET sd == calls[p].sd
                before == store[sd.matricule]
                after == store'[sd.matricule]
                decided == update_doc(calls[p].existing, sd, now)
            IN  /\ last'.outcome = "updated"
                /\ after.sems[sd.semester] = sd.block
                /\ \A s \in Semesters \ {sd.semester} : after.sems[s] = before.sems[s]
                /\ after.isPublicGlobale = before.isPublicGlobale
                /\ after.created_at = before.created_at
                /\ after.department = sd.department
                /\ after.prenom = sd.prenom
                /\ after.nom = sd.nom
                /\ after.updated_at = now
                /\ after.niveau = IF decided.set_niveau THEN decided.niveau
                                  ELSE before.niveau]_vars

\* S1 and S2 were ingested by two calls that both read the record before
\* either wrote: the record holds both semesters, which meet the thresholds,
\* and stands at L1, the niveau S2's writer decided on a record without S1
C27_Witness ==
    /\ \A p \in Callers : calls[p] = Idle
    /\ Merged(100, "S2")
    /\ last.outcome = "updated"
    /\ store[100] # NoDoc
    /\ \A s \in {"S1", "S2"} :
          /\ store[100].sems[s] # NoSem
          /\ "year" \in DOMAIN store[100].sems[s]
    /\ MeetsL2Thresholds(100)
    /\ store[100].niveau.level = "L1"
    /\ store[100].created_at = 0
    /\ now = 3

\* C28: under any interleaving of update_semester_ispublic(m, X, v) with
\* delete_notes_by_semester_and_year(X, y), after both complete the record of
\* m either has no semester X or has a complete semester X subtree (with year
\* and grade data); the flag update never leaves a semester X entry that
\* consists only of an isPublic flag.
C28_NoFlagOnlySemester ==
    \A m \in Matricules : \A s \in Semesters :
        (store[m] # NoDoc /\ store[m].sems[s] # NoSem) =>
            {"year", "modules", "moyenne_generale"} \subseteq DOMAIN store[m].sems[s]

====
